---- MODULE Spec2Model ----
(***************************************************************************)
(* Run submission pipeline of the Click Accuracy game: the validators of   *)
(* src/lib/validation.ts, the scoring functions of src/utils/scoring.ts    *)
(* and the POST /api/runs handler with the Run Store behind it; the        *)
(* queries of src/lib/database.ts, the PATCH /api/runs/[id]/username       *)
(* handler and the GET /api/leaderboard handler with its cache; the game   *)
(* client: RunState, the click handler and the payload it submits.         *)
(*                                                                         *)
(* Numbers.  JavaScript numbers are modelled by integers in fixed units:   *)
(* accuracies in hundredths (0.85 is 85), scores in tenths (75.6 is 756),  *)
(* times in milliseconds, coordinates, radii and distances in pixels.      *)
(* Arithmetic is exact; IEEE rounding noise at a tolerance boundary is not *)
(* modelled.                                                               *)
(*                                                                         *)
(* JSON values.  A field value is a record [type, v]: type is what         *)
(* JavaScript's typeof answers and v the number it converts to.            *)
(***************************************************************************)
EXTENDS Integers, Sequences, FiniteSets, TLC

VARIABLES
    runs,       \* the Run Store: the rows of table runs, in insertion order
    req,        \* the body of the request being handled
    res,        \* the response of the handler to req
    calls,      \* the validator calls the handler made for req, in order
    pc,         \* where the handler (or the function harness) stands
    arg,        \* function harness: the argument a validator is applied to
    ret,        \* function harness: what the validator returned
    now,        \* the clock, in ms since the server started
    cachedData,     \* leaderboard handler: the cached response, or none
    cacheTimestamp, \* leaderboard handler: the time of the read that filled it
    lpc,        \* where the leaderboard handler stands
    lres,       \* the response of the leaderboard handler
    ppc,        \* where the username handler stands
    preq,       \* the username request being handled: run id and username
    pres,       \* the response of the username handler
    runState,   \* game client: the RunState object
    gameArea,   \* game client: clientWidth of the game area, in px
    clock,      \* game client: Date.now() as the client's handlers read it
    posts,      \* POST handlers running side by side: where each stands
    gets        \* GET leaderboard handlers running side by side

vars == <<runs, req, res, calls, pc, arg, ret, now, cachedData, cacheTimestamp,
          lpc, lres, ppc, preq, pres, runState, gameArea, clock, posts, gets>>

\* the state of the game client
client == <<runState, gameArea, clock>>
\* the handlers that run side by side
concurrent == <<posts, gets>>

\* what the leaderboard handler and the username handler own, and the clock
others == <<now, cachedData, cacheTimestamp, lpc, lres, ppc, preq, pres, client,
            concurrent>>

---------------------------------------------------------------------------
(* Bounds of the model *)

MaxLogLen == 2      \* click_logs arrays hold at most this many records
MaxRuns == 2        \* the Run Store holds at most this many rows
MaxTable == 3       \* rows of the runs table a query is applied to
MaxBoard == 12      \* rows of the runs table the Hall of Fame is read from
MaxFreeClicks == 2  \* clicks of a run whose place, delay and target are free
MaxPosts == 3       \* POST handlers running side by side
MaxGets == 2        \* GET leaderboard handlers running side by side

---------------------------------------------------------------------------
(* JSON values *)

Num(n) == [type |-> "number", v |-> n]
Bool(b) == [type |-> "boolean", v |-> IF b THEN 1 ELSE 0]
Str == [type |-> "string", v |-> 0]
Undefined == [type |-> "undefined", v |-> 0]

typeof(x) == x.type

\* ToNumber of a number or a boolean (true is 1, false is 0)
ToNumber(x) == x.v

\* ToBoolean of a field value: a non-zero number, true, a non-empty string
Truthy(x) ==
    CASE x.type = "number" -> x.v # 0
      [] x.type = "boolean" -> x.v = 1
      [] x.type = "string" -> TRUE
      [] OTHER -> FALSE

\* 1.0 in the unit of accuracies (hundredths)
One == 100

Abs(n) == IF n < 0 THEN -n ELSE n

Valid == [valid |-> TRUE, error |-> ""]
Invalid(msg) == [valid |-> FALSE, error |-> msg]

---------------------------------------------------------------------------
(* validateGameStats *)

StatsFields == <<"totalHits", "avgAccuracy", "bestAccuracy", "finalRadius", "durationMs">>

\* the first field of fields, in order, whose type is not one of types
FirstBad(obj, fields, types) ==
    LET bad == {i \in 1..Len(fields) : typeof(obj[fields[i]]) \notin types}
    IN  IF bad = {} THEN ""
        ELSE fields[CHOOSE i \in bad : \A j \in bad : i <= j]

\* typeof stats[field] !== 'number' rejects
IsNumber == {"number"}

\* mutant of tooQuick: the boundary of 100 ms per hit is rejected too
tooQuickOffByOne(stats) ==
    stats.totalHits.v > 0 /\ stats.durationMs.v <= 100 * stats.totalHits.v

\* durationMs / totalHits < 100, asked only when totalHits > 0
tooQuick(stats) ==
    stats.totalHits.v > 0 /\ stats.durationMs.v < 100 * stats.totalHits.v

validateGameStats(stats) ==
    IF stats.kind # "object" THEN Invalid("Stats must be an object")
    ELSE IF FirstBad(stats, StatsFields, IsNumber) # ""
    THEN Invalid("Stats missing or invalid field: " \o FirstBad(stats, StatsFields, IsNumber))
    ELSE IF stats.totalHits.v < 0 \/ stats.totalHits.v > 1000
    THEN Invalid("Invalid total hits count")
    ELSE IF stats.avgAccuracy.v < 0 \/ stats.avgAccuracy.v > One
    THEN Invalid("Invalid average accuracy")
    ELSE IF stats.bestAccuracy.v < 0 \/ stats.bestAccuracy.v > One
    THEN Invalid("Invalid best accuracy")
    ELSE IF stats.finalRadius.v < 1 \/ stats.finalRadius.v > 200
    THEN Invalid("Invalid final radius")
    ELSE IF stats.durationMs.v < 0 \/ stats.durationMs.v > 3600000
    THEN Invalid("Invalid duration")
    ELSE IF tooQuick(stats)
    THEN Invalid("Game completed too quickly to be human")
    ELSE Valid

---------------------------------------------------------------------------
(* validateClickLog *)

LogFields == <<"t", "cx", "cy", "tx", "ty", "r", "d", "hit">>

\* typeof log[field] !== 'number' && typeof log[field] !== 'boolean' rejects
NumberOrBoolean == {"number", "boolean"}

radiusOutOfRange(log) == ToNumber(log.r) <= 0 \/ ToNumber(log.r) > 200

validateClickLog(log) ==
    IF log.kind # "object" THEN Invalid("Click log must be an object")
    ELSE IF FirstBad(log, LogFields, NumberOrBoolean) # ""
    THEN Invalid("Click log missing or invalid field: "
                    \o FirstBad(log, LogFields, NumberOrBoolean))
    ELSE IF ToNumber(log.t) < 0 \/ ToNumber(log.t) > 600000
    THEN Invalid("Invalid timestamp in click log")
    ELSE IF \/ ToNumber(log.cx) < 0 \/ ToNumber(log.cx) > 1000
            \/ ToNumber(log.cy) < 0 \/ ToNumber(log.cy) > 1000
    THEN Invalid("Invalid click coordinates")
    ELSE IF \/ ToNumber(log.tx) < 0 \/ ToNumber(log.tx) > 1000
            \/ ToNumber(log.ty) < 0 \/ ToNumber(log.ty) > 1000
    THEN Invalid("Invalid target coordinates")
    ELSE IF radiusOutOfRange(log)
    THEN Invalid("Invalid target radius")
    ELSE IF ToNumber(log.d) < 0 \/ ToNumber(log.d) > 1000
    THEN Invalid("Invalid distance")
    ELSE Valid

---------------------------------------------------------------------------
(* validateGameConsistency *)

RECURSIVE SumSeq(_)
SumSeq(s) == IF s = <<>> THEN 0 ELSE Head(s) + SumSeq(Tail(s))

RECURSIVE MaxSeq(_)
\* Math.max(...s) of a non-empty s
MaxSeq(s) ==
    IF Len(s) = 1 THEN s[1]
    ELSE LET m == MaxSeq(Tail(s)) IN IF Head(s) > m THEN Head(s) ELSE m

IsHit(log) == Truthy(log.hit)
IsMiss(log) == ~Truthy(log.hit)

hitLogs(clickLogs) == SelectSeq(clickLogs, IsHit)
missLogs(clickLogs) == SelectSeq(clickLogs, IsMiss)

\* log.a || 0
AccOrZero(log) == IF typeof(log.a) = "number" THEN log.a.v ELSE 0

TimeOf(log) == ToNumber(log.t)

Times(items) == [i \in 1..Len(items) |-> TimeOf(items[i])]
Accuracies(hits) == [i \in 1..Len(hits) |-> AccOrZero(hits[i])]

\* mutant of durationMismatch: the tolerance is tested on the signed difference
durationMismatchSigned(stats, items) ==
    Len(items) > 0 /\ MaxSeq(Times(items)) - stats.durationMs.v > 5000

\* Math.abs(maxTimestamp - stats.durationMs) > 5000, asked of a non-empty log
durationMismatch(stats, items) ==
    Len(items) > 0 /\ Abs(MaxSeq(Times(items)) - stats.durationMs.v) > 5000

\* mutant of accuracyMismatch: the sum is divided by the number of records
accuracyMismatchAllLogs(stats, items) ==
    LET hits == hitLogs(items)
        n == Len(items)
    IN  Len(hits) > 0
        /\ Abs(SumSeq(Accuracies(hits)) - n * stats.avgAccuracy.v) > 5 * n

\* Math.abs(sum / n - stats.avgAccuracy) > 0.05, asked when there are hits:
\* in hundredths, |sum - n * avg| > 5 * n. The two agree wherever the
\* difference is not 0.05 to the digit; there the outcome rests on the binary
\* representation of the operands, and the requests below keep off that point
accuracyMismatch(stats, items) ==
    LET hits == hitLogs(items)
        n == Len(hits)
    IN  n > 0 /\ Abs(SumSeq(Accuracies(hits)) - n * stats.avgAccuracy.v) > 5 * n

validateGameConsistency(stats, clickLogs) ==
    IF clickLogs.kind # "array" THEN Invalid("Click logs must be an array")
    ELSE IF Len(hitLogs(clickLogs.items)) # stats.totalHits.v
    THEN Invalid("Hit count mismatch between stats and logs")
    ELSE IF Len(missLogs(clickLogs.items)) > 1
    THEN Invalid("Too many misses in click logs")
    ELSE IF durationMismatch(stats, clickLogs.items)
    THEN Invalid("Duration mismatch between stats and logs")
    ELSE IF accuracyMismatch(stats, clickLogs.items)
    THEN Invalid("Average accuracy mismatch")
    ELSE Valid

---------------------------------------------------------------------------
(* Scoring: calculateSpeedScore, calculatePerformanceScore, badges *)

\* Math.round(100 * Math.exp(-t / 3.5) * 10), the score in tenths, is a step
\* function of the time per hit: it is at least k exactly when the time per
\* hit is at most -3500 * ln((k - 0.5) / 1000) ms.  That time is
\* DecayMs[k] ms and DecayMicro[k] millionths of a ms (rounded down).
DecayMs == <<
    26603, 22758, 20970, 19792, 18912, 18210, 17625, 17124, 16686, 16297,
    15947, 15628, 15337, 15067, 14817, 14584, 14365, 14159, 13964, 13780,
    13605, 13438, 13279, 13127, 12981, 12841, 12707, 12577, 12452, 12331,
    12215, 12102, 11992, 11886, 11783, 11683, 11586, 11491, 11399, 11310,
    11222, 11137, 11053, 10972, 10892, 10815, 10739, 10664, 10591, 10520,
    10450, 10381, 10314, 10248, 10183, 10119, 10057, 9995, 9935, 9876,
    9817, 9760, 9704, 9648, 9593, 9539, 9486, 9434, 9383, 9332,
    9282, 9233, 9184, 9136, 9089, 9042, 8996, 8951, 8906, 8861,
    8818, 8775, 8732, 8690, 8648, 8607, 8566, 8526, 8486, 8447,
    8408, 8369, 8331, 8294, 8257, 8220, 8183, 8147, 8111, 8076,
    8041, 8006, 7972, 7938, 7904, 7871, 7838, 7805, 7773, 7741,
    7709, 7678, 7646, 7615, 7585, 7554, 7524, 7494, 7464, 7435,
    7406, 7377, 7348, 7320, 7292, 7264, 7236, 7208, 7181, 7154,
    7127, 7100, 7074, 7047, 7021, 6995, 6970, 6944, 6919, 6893,
    6868, 6844, 6819, 6794, 6770, 6746, 6722, 6698, 6675, 6651,
    6628, 6605, 6582, 6559, 6536, 6513, 6491, 6469, 6447, 6424,
    6403, 6381, 6359, 6338, 6316, 6295, 6274, 6253, 6232, 6212,
    6191, 6171, 6150, 6130, 6110, 6090, 6070, 6050, 6031, 6011,
    5992, 5972, 5953, 5934, 5915, 5896, 5877, 5858, 5840, 5821,
    5803, 5785, 5766, 5748, 5730, 5712, 5694, 5677, 5659, 5641,
    5624, 5606, 5589, 5572, 5555, 5538, 5521, 5504, 5487, 5470,
    5453, 5437, 5420, 5404, 5388, 5371, 5355, 5339, 5323, 5307,
    5291, 5275, 5259, 5244, 5228, 5213, 5197, 5182, 5166, 5151,
    5136, 5121, 5106, 5091, 5076, 5061, 5046, 5031, 5016, 5002,
    4987, 4973, 4958, 4944, 4929, 4915, 4901, 4887, 4873, 4859,
    4845, 4831, 4817, 4803, 4789, 4775, 4762, 4748, 4735, 4721,
    4708, 4694, 4681, 4667, 4654, 4641, 4628, 4615, 4602, 4589,
    4576, 4563, 4550, 4537, 4524, 4512, 4499, 4486, 4474, 4461,
    4449, 4436, 4424, 4411, 4399, 4387, 4375, 4362, 4350, 4338,
    4326, 4314, 4302, 4290, 4278, 4266, 4254, 4243, 4231, 4219,
    4208, 4196, 4184, 4173, 4161, 4150, 4138, 4127, 4116, 4104,
    4093, 4082, 4071, 4059, 4048, 4037, 4026, 4015, 4004, 3993,
    3982, 3971, 3960, 3949, 3939, 3928, 3917, 3906, 3896, 3885,
    3875, 3864, 3853, 3843, 3832, 3822, 3812, 3801, 3791, 3780,
    3770, 3760, 3750, 3739, 3729, 3719, 3709, 3699, 3689, 3679,
    3669, 3659, 3649, 3639, 3629, 3619, 3609, 3600, 3590, 3580,
    3570, 3561, 3551, 3541, 3532, 3522, 3513, 3503, 3494, 3484,
    3475, 3465, 3456, 3446, 3437, 3428, 3418, 3409, 3400, 3391,
    3381, 3372, 3363, 3354, 3345, 3336, 3327, 3318, 3309, 3300,
    3291, 3282, 3273, 3264, 3255, 3246, 3237, 3228, 3220, 3211,
    3202, 3193, 3185, 3176, 3167, 3159, 3150, 3142, 3133, 3124,
    3116, 3107, 3099, 3090, 3082, 3073, 3065, 3057, 3048, 3040,
    3032, 3023, 3015, 3007, 2998, 2990, 2982, 2974, 2966, 2957,
    2949, 2941, 2933, 2925, 2917, 2909, 2901, 2893, 2885, 2877,
    2869, 2861, 2853, 2845, 2837, 2829, 2822, 2814, 2806, 2798,
    2790, 2783, 2775, 2767, 2759, 2752, 2744, 2736, 2729, 2721,
    2714, 2706, 2698, 2691, 2683, 2676, 2668, 2661, 2653, 2646,
    2638, 2631, 2624, 2616, 2609, 2601, 2594, 2587, 2579, 2572,
    2565, 2557, 2550, 2543, 2536, 2529, 2521, 2514, 2507, 2500,
    2493, 2486, 2478, 2471, 2464, 2457, 2450, 2443, 2436, 2429,
    2422, 2415, 2408, 2401, 2394, 2387, 2380, 2373, 2367, 2360,
    2353, 2346, 2339, 2332, 2325, 2319, 2312, 2305, 2298, 2292,
    2285, 2278, 2271, 2265, 2258, 2251, 2245, 2238, 2231, 2225,
    2218, 2212, 2205, 2199, 2192, 2185, 2179, 2172, 2166, 2159,
    2153, 2146, 2140, 2134, 2127, 2121, 2114, 2108, 2101, 2095,
    2089, 2082, 2076, 2070, 2063, 2057, 2051, 2045, 2038, 2032,
    2026, 2020, 2013, 2007, 2001, 1995, 1988, 1982, 1976, 1970,
    1964, 1958, 1952, 1945, 1939, 1933, 1927, 1921, 1915, 1909,
    1903, 1897, 1891, 1885, 1879, 1873, 1867, 1861, 1855, 1849,
    1843, 1837, 1831, 1826, 1820, 1814, 1808, 1802, 1796, 1790,
    1784, 1779, 1773, 1767, 1761, 1755, 1750, 1744, 1738, 1732,
    1727, 1721, 1715, 1710, 1704, 1698, 1692, 1687, 1681, 1675,
    1670, 1664, 1659, 1653, 1647, 1642, 1636, 1631, 1625, 1619,
    1614, 1608, 1603, 1597, 1592, 1586, 1581, 1575, 1570, 1564,
    1559, 1553, 1548, 1542, 1537, 1532, 1526, 1521, 1515, 1510,
    1505, 1499, 1494, 1488, 1483, 1478, 1472, 1467, 1462, 1456,
    1451, 1446, 1441, 1435, 1430, 1425, 1420, 1414, 1409, 1404,
    1399, 1393, 1388, 1383, 1378, 1373, 1367, 1362, 1357, 1352,
    1347, 1342, 1336, 1331, 1326, 1321, 1316, 1311, 1306, 1301,
    1296, 1291, 1286, 1281, 1275, 1270, 1265, 1260, 1255, 1250,
    1245, 1240, 1235, 1230, 1225, 1220, 1216, 1211, 1206, 1201,
    1196, 1191, 1186, 1181, 1176, 1171, 1166, 1161, 1157, 1152,
    1147, 1142, 1137, 1132, 1127, 1123, 1118, 1113, 1108, 1103,
    1099, 1094, 1089, 1084, 1079, 1075, 1070, 1065, 1060, 1056,
    1051, 1046, 1042, 1037, 1032, 1027, 1023, 1018, 1013, 1009,
    1004, 999, 995, 990, 985, 981, 976, 972, 967, 962,
    958, 953, 949, 944, 939, 935, 930, 926, 921, 917,
    912, 907, 903, 898, 894, 889, 885, 880, 876, 871,
    867, 862, 858, 853, 849, 845, 840, 836, 831, 827,
    822, 818, 813, 809, 805, 800, 796, 791, 787, 783,
    778, 774, 770, 765, 761, 757, 752, 748, 744, 739,
    735, 731, 726, 722, 718, 713, 709, 705, 700, 696,
    692, 688, 683, 679, 675, 671, 666, 662, 658, 654,
    650, 645, 641, 637, 633, 629, 624, 620, 616, 612,
    608, 603, 599, 595, 591, 587, 583, 579, 574, 570,
    566, 562, 558, 554, 550, 546, 542, 538, 533, 529,
    525, 521, 517, 513, 509, 505, 501, 497, 493, 489,
    485, 481, 477, 473, 469, 465, 461, 457, 453, 449,
    445, 441, 437, 433, 429, 425, 421, 417, 413, 409,
    405, 401, 398, 394, 390, 386, 382, 378, 374, 370,
    366, 362, 359, 355, 351, 347, 343, 339, 335, 332,
    328, 324, 320, 316, 312, 308, 305, 301, 297, 293,
    289, 286, 282, 278, 274, 270, 267, 263, 259, 255,
    252, 248, 244, 240, 237, 233, 229, 225, 222, 218,
    214, 210, 207, 203, 199, 196, 192, 188, 185, 181,
    177, 174, 170, 166, 162, 159, 155, 152, 148, 144,
    141, 137, 133, 130, 126, 122, 119, 115, 112, 108,
    104, 101, 97, 94, 90, 86, 83, 79, 76, 72,
    68, 65, 61, 58, 54, 51, 47, 44, 40, 36,
    33, 29, 26, 22, 19, 15, 12, 8, 5, 1
>>

DecayMicro == <<
    158608, 15598, 125914, 473086, 872587, 525153, 835857, 982904, 911904, 622181,
    330076, 928852, 93221, 729577, 623203, 203392, 382143, 440393, 945914, 692846,
    656374, 958203, 839894, 642002, 787565, 768893, 136910, 492460, 479170, 777554,
    100083, 187066, 803163, 734440, 785842, 779038, 550564, 950211, 839631, 91124,
    586567, 216481, 879210, 480193, 931314, 150335, 60382, 589487, 670183, 239132,
    236799, 607149, 297382, 257687, 441020, 802903, 301242, 896159, 549836, 226382,
    891698, 513364, 60527, 503805, 815193, 967977, 936659, 696883, 225367, 499842,
    498992, 202402, 590509, 644554, 346537, 679179, 625883, 170699, 298289, 993900,
    243330, 32905, 349449, 180264, 513106, 336160, 638027, 407699, 634544, 308287,
    418998, 957073, 913220, 278449, 44055, 201610, 742947, 660153, 945557, 591721,
    591430, 937681, 623681, 642831, 988726, 655141, 636028, 925509, 517871, 407554,
    589153, 57408, 807200, 833547, 131595, 696621, 524020, 609308, 948114, 536176,
    369341, 443556, 754871, 299430, 73470, 73321, 295397, 736200, 392311, 260392,
    337182, 619495, 104217, 788303, 668779, 742735, 7325, 459766, 97336, 917372,
    917265, 94466, 446477, 970853, 665200, 527173, 554476, 744861, 96122, 606101,
    272681, 93789, 67390, 191491, 464139, 883415, 447441, 154372, 2399, 989748,
    114677, 375477, 770470, 298010, 956480, 744294, 659893, 701747, 868352, 158232,
    569937, 102043, 753148, 521878, 406880, 406826, 520409, 746345, 83372, 530248,
    85754, 748688, 517870, 392140, 370354, 451389, 634139, 917517, 300452, 781890,
    360795, 36146, 806938, 672182, 630905, 682148, 824966, 58431, 381625, 793649,
    293612, 880641, 553873, 312459, 155562, 82357, 92033, 183787, 356832, 610388,
    943690, 355981, 846517, 414562, 59392, 780293, 576560, 447499, 392425, 410662,
    501544, 664413, 898620, 203527, 578501, 22920, 536169, 117642, 766740, 482873,
    265457, 113919, 27688, 6206, 48918, 155279, 324748, 556794, 850890, 206517,
    623163, 100320, 637490, 234177, 889895, 604161, 376499, 206439, 93517, 37273,
    37254, 93013, 204105, 370095, 590550, 865042, 193150, 574456, 8547, 495017,
    33462, 623484, 264689, 956688, 699096, 491534, 333623, 224994, 165277, 154110,
    191132, 275988, 408327, 587799, 814063, 86776, 405603, 770210, 180268, 635452,
    135439, 679909, 268549, 901045, 577088, 296374, 58599, 863465, 710675, 599936,
    530959, 503456, 517143, 571738, 666965, 802547, 978211, 193688, 448711, 743014,
    76337, 448419, 859005, 307839, 794671, 319251, 881332, 480671, 117024, 790154,
    499821, 245792, 27834, 845716, 699209, 588089, 512130, 471112, 464813, 493018,
    555509, 652073, 782499, 946577, 144099, 374860, 638655, 935283, 264543, 626237,
    20168, 446142, 903966, 393447, 914397, 466628, 49954, 664190, 309153, 984661,
    690536, 426599, 192674, 988585, 814159, 669225, 553611, 467148, 409670, 381010,
    381003, 409487, 466298, 551277, 664265, 805104, 973636, 169708, 393166, 643856,
    921627, 226330, 557816, 915937, 300546, 711499, 148651, 611861, 100985, 615885,
    156419, 722451, 313844, 930460, 572166, 238827, 930311, 646486, 387221, 152387,
    941855, 755498, 593190, 454803, 340215, 249300, 181938, 138005, 117382, 119947,
    145583, 194172, 265596, 359738, 476485, 615721, 777332, 961207, 167232, 395298,
    645293, 917109, 210637, 525769, 862398, 220418, 599724, 212, 421776, 864314,
    327725, 811906, 316756, 842175, 388065, 954326, 540860, 147571, 774361, 421135,
    87798, 774255, 480412, 206177, 951456, 716158, 500192, 303467, 125893, 967381,
    827842, 707189, 605334, 522189, 457669, 411689, 384162, 375006, 384135, 411466,
    456917, 520406, 601850, 701170, 818284, 953112, 105575, 275594, 463091, 667987,
    890206, 129671, 386305, 660032, 950778, 258467, 583026, 924379, 282455, 657180,
    48481, 456287, 880527, 321128, 778022, 251137, 740405, 245755, 767120, 304431,
    857619, 426619, 11362, 611782, 227813, 859389, 506445, 168916, 846738, 539846,
    248177, 971667, 710253, 463874, 232466, 15969, 814320, 627459, 455326, 297859,
    154999, 26687, 912864, 813470, 728447, 657738, 601284, 559028, 530913, 516883,
    516880, 530850, 558736, 600483, 656037, 725341, 808343, 904988, 15222, 138992,
    276244, 426927, 590987, 768373, 959032, 162914, 379966, 610138, 853379, 109639,
    378868, 661015, 956033, 263870, 584479, 917810, 263815, 622447, 993657, 377398,
    773623, 182284, 603334, 36728, 482419, 940361, 410509, 892816, 387238, 893729,
    412246, 942743, 485177, 39503, 605678, 183657, 773399, 374860, 987997, 612767,
    249129, 897041, 556459, 227343, 909652, 603344, 308378, 24714, 752311, 491129,
    241127, 2266, 774507, 557809, 352133, 157441, 973694, 800853, 638880, 487736,
    347383, 217785, 98902, 990698, 893135, 806177, 729787, 663928, 608563, 563656,
    529172, 505074, 491327, 487895, 494743, 511835, 539138, 576615, 624232, 681956,
    749751, 827584, 915420, 13227, 120969, 238615, 366131, 503483, 650638, 807565,
    974231, 150602, 336647, 532334, 737631, 952505, 176927, 410863, 654282, 907155,
    169449, 441133, 722177, 12551, 312224, 621166, 939347, 266736, 603305, 949022,
    303860, 667788, 40777, 422798, 813822, 213821, 622766, 40627, 467378, 902989,
    347432, 800680, 262704, 733477, 212971, 701159, 198013, 703506, 217612, 740302,
    271551, 811332, 359617, 916381, 481598, 55240, 637282, 227698, 826463, 433550,
    48933, 672588, 304489, 944610, 592927, 249415, 914048, 586802, 267652, 956573,
    653542, 358533, 71523, 792488, 521402, 258244, 2987, 755610, 516088, 284398,
    60516, 844420, 636086, 435490, 242611, 57425, 879909, 710041, 547798, 393158,
    246099, 106597, 974631, 850179, 733219, 623729, 521688, 427073, 339862, 260036,
    187571, 122447, 64643, 14137, 970908, 934936, 906200, 884678, 870350, 863197,
    863196, 870328, 884572, 905908, 934316, 969776, 12269, 61773, 118269, 181738,
    252160, 329515, 413783, 504947, 602985, 707879, 819610, 938159, 63507, 195634,
    334522, 480152, 632506, 791565, 957310, 129723, 308785, 494479, 686786, 885688,
    91167, 303204, 521783, 746884, 978491, 216586, 461150, 712167, 969619, 233488,
    503758, 780410, 63429, 352795, 648494, 950506, 258817, 573408, 894262, 221365,
    554697, 894244, 239988, 591913, 950002, 314240, 684610, 61095, 443680, 832349,
    227085, 627873, 34696, 447540, 866387, 291223, 722032, 158798, 601506, 50139,
    504684, 965125, 431445, 903631, 381666, 865537, 355227, 850722, 352006, 859066,
    371886, 890451, 414747, 944760, 480473, 21874, 568947, 121678, 680054, 244058,
    813678, 388898, 969706, 556086, 148025, 745509, 348523, 957055, 571089, 190613,
    815612, 446074, 81983, 723328, 370093, 22267, 679834, 342783, 11099, 684770,
    363782, 48122, 737776, 432733, 132978, 838499, 549283, 265316, 986587, 713082,
    444789, 181695, 923787, 671052, 423479, 181054, 943766, 711601, 484547, 262592,
    45724, 833931, 627199, 425518, 228875, 37258, 850654, 669053, 492442, 320808,
    154141, 992428, 835658, 683819, 536899, 394887, 257770, 125539, 998180, 875682,
    758035, 645226, 537244, 434078, 335717, 242149, 153364, 69349, 990095, 915589,
    845821, 780780, 720455, 664834, 613908, 567665, 526094, 489185, 456926, 429308,
    406319, 387949, 374187, 365022, 360445, 360445, 365011, 374132, 387799, 406001,
    428728, 455970, 487715, 523955, 564678, 609876, 659537, 713651, 772209, 835201,
    902616, 974445, 50678, 131305, 216316, 305701, 399450, 497555, 600004, 706789,
    817900, 933327, 53060, 177091, 305409, 438005, 574870, 715994, 861369, 10983,
    164829, 322897, 485177, 651661, 822339, 997202, 176240, 359446, 546810, 738322,
    933974, 133756, 337660, 545677, 757798, 974014, 194316, 418695, 647143, 879651,
    116210, 356811, 601446, 850106, 102782, 359466, 620149, 884823, 153480, 426110,
    702705, 983258, 267758, 556199, 848572, 144868, 445079, 749197, 57213, 369120,
    684909, 4572, 328101, 655488, 986725, 321803, 660715, 3452, 350007, 700372,
    54538, 412498, 774244, 139768, 509063, 882119, 258931, 639489, 23786, 411815,
    803567, 199035, 598212, 1089, 407660, 817916, 231850, 649454, 70722, 495645,
    924216, 356428, 792273, 231744, 674833, 121533, 571837, 25737, 483227, 944298,
    408944, 877158, 348932, 824259, 303132, 785544, 271487, 760955, 253941, 750437
>>

\* totalDurationMs / totalHits is at most the k-th threshold
WithinDecay(k, d, h) ==
    \/ d \div h < DecayMs[k]
    \/ d \div h = DecayMs[k] /\ (d % h) * 1000000 <= DecayMicro[k] * h

RECURSIVE DecaySearch(_, _, _, _)
\* the largest k in lo..hi with WithinDecay(k, d, h) (lo if there is none)
DecaySearch(lo, hi, d, h) ==
    IF lo >= hi THEN lo
    ELSE LET mid == (lo + hi + 1) \div 2
         IN  IF WithinDecay(mid, d, h)
             THEN DecaySearch(mid, hi, d, h)
             ELSE DecaySearch(lo, mid - 1, d, h)

\* mutant of calculateSpeedScore: no ceiling at 0.1 s per hit
calculateSpeedScoreNoCeiling(totalDurationMs, totalHits) ==
    IF totalHits = 0 THEN 0
    ELSE DecaySearch(0, Len(DecayMs), totalDurationMs, totalHits)

\* in tenths of a point
calculateSpeedScore(totalDurationMs, totalHits) ==
    IF totalHits = 0 THEN 0
    ELSE IF totalDurationMs <= 100 * totalHits THEN 10 * 100
    ELSE DecaySearch(0, Len(DecayMs), totalDurationMs, totalHits)

Min(a, b) == IF a < b THEN a ELSE b

\* averageAccuracy * min(1, totalHits / 20) * 100 * 10 falls on a half when
\* averageAccuracy (hundredths) * min(20, totalHits) is odd; for these pairs
\* the product of the doubles lies just under the half and Math.round rounds
\* it down, for every other pair on a half it rounds up
HalfRoundedDown ==
    {<<3, 7>>, <<3, 19>>, <<5, 7>>, <<9, 19>>, <<15, 15>>, <<15, 19>>, <<17, 7>>,
     <<19, 3>>, <<19, 7>>, <<21, 17>>, <<29, 5>>, <<29, 7>>, <<29, 15>>, <<33, 7>>,
     <<35, 1>>, <<35, 7>>, <<35, 13>>, <<35, 15>>, <<35, 19>>, <<37, 15>>, <<41, 3>>,
     <<41, 17>>, <<41, 19>>, <<43, 19>>, <<47, 3>>, <<47, 17>>, <<51, 7>>, <<51, 19>>,
     <<53, 19>>, <<57, 1>>, <<57, 3>>, <<57, 5>>, <<57, 17>>, <<59, 1>>, <<59, 17>>,
     <<61, 7>>, <<63, 7>>, <<65, 7>>, <<65, 19>>, <<69, 7>>, <<69, 13>>, <<69, 15>>,
     <<69, 17>>, <<71, 7>>, <<73, 13>>, <<75, 3>>, <<75, 7>>, <<75, 17>>, <<75, 19>>,
     <<77, 3>>, <<77, 7>>, <<77, 19>>, <<83, 15>>, <<85, 15>>, <<85, 17>>, <<87, 17>>,
     <<89, 17>>, <<91, 19>>, <<95, 3>>, <<95, 7>>, <<95, 13>>, <<95, 15>>, <<97, 7>>}

\* in tenths of a point: averageAccuracy * min(1, totalHits / 20) * 100 is
\* averageAccuracy (hundredths) * min(20, totalHits) / 2 tenths
\* mutant of calculatePerformanceScore: the multiplier is not capped at 20 hits
calculatePerformanceScoreUncapped(averageAccuracy, totalHits) ==
    IF totalHits = 0 THEN 0
    ELSE (averageAccuracy * totalHits + 1) \div 2

calculatePerformanceScore(averageAccuracy, totalHits) ==
    IF totalHits = 0 THEN 0
    ELSE IF <<averageAccuracy, Min(20, totalHits)>> \in HalfRoundedDown
    THEN (averageAccuracy * Min(20, totalHits) - 1) \div 2
    ELSE (averageAccuracy * Min(20, totalHits) + 1) \div 2

\* Math.round(durationMs / totalHits)
getAverageTimePerHit(durationMs, totalHits) ==
    IF totalHits = 0 THEN 0
    ELSE (2 * durationMs + totalHits) \div (2 * totalHits)

\* log.a !== undefined && log.a >= 0.8: true counts as 1
HasAccuracyAtLeast80(log) ==
    CASE typeof(log.a) = "number" -> log.a.v >= 80
      [] typeof(log.a) = "boolean" -> log.a.v = 1
      [] OTHER -> FALSE
IsPerfectHit(log) == Truthy(log.hit) /\ typeof(log.a) = "number" /\ log.a.v = One

\* BADGES: the ids in table order, each with its criteria
BadgeIds == <<"sharpshooter", "circus_shot", "speed_demon", "perfectionist",
              "marathon_runner", "consistency", "bullseye_master", "steady_hands">>

criteria(id, stats) ==
    CASE id = "sharpshooter" -> stats.avgAccuracy > 90
      [] id = "circus_shot" -> stats.bestAccuracy >= 99
      [] id = "speed_demon" -> stats.speedScore > 850
      [] id = "perfectionist" -> stats.performanceScore > 900
      [] id = "marathon_runner" -> stats.totalHits >= 25
      [] id = "consistency" ->
            /\ Len(hitLogs(stats.clickLogs)) > 5
            /\ \A i \in 1..Len(hitLogs(stats.clickLogs)) :
                    HasAccuracyAtLeast80(hitLogs(stats.clickLogs)[i])
      [] id = "bullseye_master" ->
            Len(SelectSeq(stats.clickLogs, IsPerfectHit)) >= 5
      [] id = "steady_hands" ->
            /\ Len(hitLogs(stats.clickLogs)) >= 15
            /\ Len(missLogs(stats.clickLogs)) = 0

\* mutant of determineBadges: the first badge earned is the only one
determineBadgesFirstOnly(stats) ==
    LET earned(id) == criteria(id, stats)
    IN  SubSeq(SelectSeq(BadgeIds, earned), 1, 1)

determineBadges(stats) ==
    LET earned(id) == criteria(id, stats)
    IN  SelectSeq(BadgeIds, earned)

calculateGameStatistics(totalHits, avgAccuracy, bestAccuracy, finalRadius, durationMs, clickLogs) ==
    LET scored == [totalHits |-> totalHits,
                   avgAccuracy |-> avgAccuracy,
                   bestAccuracy |-> bestAccuracy,
                   finalRadius |-> finalRadius,
                   durationMs |-> durationMs,
                   speedScore |-> calculateSpeedScore(durationMs, totalHits),
                   performanceScore |-> calculatePerformanceScore(avgAccuracy, totalHits),
                   badges |-> <<>>,
                   clickLogs |-> clickLogs]
    IN  [scored EXCEPT !.badges = determineBadges(scored)]

---------------------------------------------------------------------------
(* validateUsername, validateBadges *)

\* A username is described by its type, its length and whether it matches
\* /^[a-zA-Z0-9\s\-_.!]+$/
NoUser == [kind |-> "undefined", len |-> 0, charsOk |-> TRUE]
UserString(len, charsOk) == [kind |-> "string", len |-> len, charsOk |-> charsOk]
UserNumber == [kind |-> "number", len |-> 0, charsOk |-> FALSE]

\* !username: undefined, null and the empty string
NoUsername(username) ==
    username.kind = "undefined" \/ (username.kind = "string" /\ username.len = 0)

validateUsername(username) ==
    IF NoUsername(username) THEN Valid
    ELSE IF username.kind # "string" THEN Invalid("Username must be a string")
    ELSE IF username.len > 20 THEN Invalid("Username must be 20 characters or less")
    ELSE IF ~username.charsOk THEN Invalid("Username contains invalid characters")
    ELSE Valid

validBadges == {"sharpshooter", "circus_shot", "speed_demon", "perfectionist",
                "marathon_runner", "consistency", "bullseye_master", "steady_hands"}

validateBadges(badges) ==
    IF badges.kind # "array" THEN Invalid("Badges must be an array")
    ELSE IF \E i \in 1..Len(badges.items) : badges.items[i] \notin validBadges
    THEN LET bad == {i \in 1..Len(badges.items) : badges.items[i] \notin validBadges}
         IN  Invalid("Invalid badge: "
                        \o badges.items[CHOOSE i \in bad : \A j \in bad : i <= j])
    ELSE IF Len(badges.items) > 10 THEN Invalid("Too many badges")
    ELSE Valid

---------------------------------------------------------------------------
(* POST /api/runs *)

\* !x of a body field that is missing (undefined or null)
Missing(x) == x.kind = "undefined"

Repeat(x, n) == [i \in 1..n |-> x]

\* for (const log of click_logs): the index of the first record that
\* validateClickLog rejects, 0 when it rejects none
firstInvalidLog(items) ==
    LET bad == {i \in 1..Len(items) : ~validateClickLog(items[i]).valid}
    IN  IF bad = {} THEN 0 ELSE CHOOSE i \in bad : \A j \in bad : i <= j

Rejected(msg, made) == [valid |-> FALSE, error |-> msg, calls |-> made]
Accepted(made) == [valid |-> TRUE, error |-> "", calls |-> made]

\* mutant of logError: the validator's message is passed on as it is
logErrorBare(log) == validateClickLog(log).error

\* the message of a rejected record as the handler returns it
logError(log) == "Invalid click log: " \o validateClickLog(log).error

\* mutant of validation: cross-consistency is asked before the records are
\* validated
validationConsistencyFirst(body) ==
    LET items == body.click_logs.items
        k == firstInvalidLog(items)
        cu == <<"validateUsername">>
        cs == cu \o <<"validateGameStats">>
        cc == cs \o <<"validateGameConsistency">>
        cl == cc \o Repeat("validateClickLog", IF k = 0 THEN Len(items) ELSE k)
        cb == cl \o <<"validateBadges">>
    IN  IF Missing(body.stats) \/ Missing(body.click_logs)
        THEN Rejected("Missing required fields: stats, click_logs", <<>>)
        ELSE IF ~validateUsername(body.username).valid
        THEN Rejected(validateUsername(body.username).error, cu)
        ELSE IF ~validateGameStats(body.stats).valid
        THEN Rejected(validateGameStats(body.stats).error, cs)
        ELSE IF body.click_logs.kind # "array"
        THEN Rejected("click_logs must be an array", cs)
        ELSE IF ~validateGameConsistency(body.stats, body.click_logs).valid
        THEN Rejected(validateGameConsistency(body.stats, body.click_logs).error, cc)
        ELSE IF k # 0
        THEN Rejected(logError(items[k]), cl)
        ELSE IF ~Missing(body.badges) /\ ~validateBadges(body.badges).valid
        THEN Rejected(validateBadges(body.badges).error, cb)
        ELSE Accepted(IF Missing(body.badges) THEN cl ELSE cb)

\* the checks of the handler in the order it makes them, up to the first that
\* fails: the verdict, the error returned and the validator calls made
validation(body) ==
    LET items == body.click_logs.items
        k == firstInvalidLog(items)
        cu == <<"validateUsername">>
        cs == cu \o <<"validateGameStats">>
        cl == cs \o Repeat("validateClickLog", IF k = 0 THEN Len(items) ELSE k)
        cc == cl \o <<"validateGameConsistency">>
        cb == cc \o <<"validateBadges">>
    IN  IF Missing(body.stats) \/ Missing(body.click_logs)
        THEN Rejected("Missing required fields: stats, click_logs", <<>>)
        ELSE IF ~validateUsername(body.username).valid
        THEN Rejected(validateUsername(body.username).error, cu)
        ELSE IF ~validateGameStats(body.stats).valid
        THEN Rejected(validateGameStats(body.stats).error, cs)
        ELSE IF body.click_logs.kind # "array"
        THEN Rejected("click_logs must be an array", cs)
        ELSE IF k # 0
        THEN Rejected(logError(items[k]), cl)
        ELSE IF ~validateGameConsistency(body.stats, body.click_logs).valid
        THEN Rejected(validateGameConsistency(body.stats, body.click_logs).error, cc)
        ELSE IF ~Missing(body.badges) /\ ~validateBadges(body.badges).valid
        THEN Rejected(validateBadges(body.badges).error, cb)
        ELSE Accepted(IF Missing(body.badges) THEN cc ELSE cb)

\* the record the handler builds for insertRun
runRecord(body) ==
    [username |-> IF NoUsername(body.username) THEN NoUser ELSE body.username,
     speed_score |-> calculateSpeedScore(body.stats.durationMs.v, body.stats.totalHits.v),
     performance_score |->
        calculatePerformanceScore(body.stats.avgAccuracy.v, body.stats.totalHits.v),
     total_hits |-> body.stats.totalHits.v,
     avg_accuracy |-> body.stats.avgAccuracy.v,
     best_accuracy |-> body.stats.bestAccuracy.v,
     final_radius |-> body.stats.finalRadius.v,
     duration_ms |-> body.stats.durationMs.v,
     avg_time_per_hit_ms |->
        getAverageTimePerHit(body.stats.durationMs.v, body.stats.totalHits.v),
     click_logs |-> body.click_logs.items,
     badges |-> IF Missing(body.badges) THEN <<>> ELSE body.badges.items,
     is_ai |-> FALSE]

\* run.ai_model || null of a run that names no model
NoModel == ""

\* INSERT INTO runs ... RETURNING id: the row, with its serial id, the model
\* the handler's record does not name and created_at DEFAULT NOW()
insertRun(table, run, at) ==
    Append(table, [id |-> Len(table) + 1, is_ai |-> run.is_ai,
                   ai_model |-> NoModel, created_at |-> at,
                   username |-> run.username,
                   speed_score |-> run.speed_score,
                   performance_score |-> run.performance_score,
                   total_hits |-> run.total_hits,
                   avg_accuracy |-> run.avg_accuracy,
                   best_accuracy |-> run.best_accuracy,
                   final_radius |-> run.final_radius,
                   duration_ms |-> run.duration_ms,
                   avg_time_per_hit_ms |-> run.avg_time_per_hit_ms,
                   click_logs |-> run.click_logs,
                   badges |-> run.badges])

---------------------------------------------------------------------------
(* Run Store queries *)

IsHuman(row) == ~row.is_ai
IsBenchmark(row) == row.is_ai /\ row.ai_model # NoModel

\* metric === 'speed' ? 'speed_score' : 'performance_score'
Field(row, metric) == IF metric = "speed" THEN row.speed_score ELSE row.performance_score

\* SELECT COUNT(*) ... WHERE is_ai = false AND field > / < score
CountHuman(table) == Len(SelectSeq(table, IsHuman))
CountAbove(table, score, metric) ==
    Cardinality({i \in 1..Len(table) : IsHuman(table[i]) /\ Field(table[i], metric) > score})
CountBelow(table, score, metric) ==
    Cardinality({i \in 1..Len(table) : IsHuman(table[i]) /\ Field(table[i], metric) < score})

\* mutant of getCurrentRank: the runs of the AI benchmarks are counted too
getCurrentRankAll(table, score, metric) ==
    Cardinality({i \in 1..Len(table) : Field(table[i], metric) > score}) + 1

getCurrentRank(table, score, metric) == CountAbove(table, score, metric) + 1

\* Math.round((lowerCount / totalCount) * 100): the double computation rounds
\* as the exact quotient does for every totalCount under 40
percentage(lowerCount, totalCount) == (200 * lowerCount + totalCount) \div (2 * totalCount)

calculatePercentile(table, score, metric) ==
    IF CountHuman(table) = 0 THEN 100
    ELSE percentage(CountBelow(table, score, metric), CountHuman(table))

\* Math.round of a difference of scores, in tenths: a half goes up
RoundTenths(t) == (t + 5) \div 10

\* the deltas against one benchmark row
Deltas(row, speedScore, performanceScore) ==
    [speed |-> RoundTenths(speedScore - row.speed_score),
     performance |-> RoundTenths(performanceScore - row.performance_score)]

\* ai_model.toLowerCase().replace(/[^a-z0-9]/g, '_'): models are named by
\* their keys
ModelKeys(table) == {table[i].ai_model : i \in {j \in 1..Len(table) : IsBenchmark(table[j])}}

\* getAIComparisons: one entry per key; the rows come in no stated order and
\* of rows with the same key the last one read stays
getAIComparisons(table, speedScore, performanceScore) ==
    {c \in [ModelKeys(table) ->
                {Deltas(table[i], speedScore, performanceScore) : i \in 1..Len(table)}] :
        \A k \in ModelKeys(table) :
            \E i \in 1..Len(table) :
                /\ IsBenchmark(table[i]) /\ table[i].ai_model = k
                /\ c[k] = Deltas(table[i], speedScore, performanceScore)}

\* LIMIT 10 of the Hall of Fame
HallOfFameLimit == 10

\* the ids of the rows a query selects
HumanIds(table) == {i \in 1..Len(table) : IsHuman(table[i])}

\* the ids of I whose performance_score no id of I exceeds
TopIds(table, I) ==
    {i \in I : \A j \in I : table[j].performance_score <= table[i].performance_score}

RECURSIVE Orderings(_, _)
\* ORDER BY performance_score DESC of the rows I: every order of the ids in
\* which the scores never rise; rows level on the score come in any order
Orderings(table, I) ==
    IF I = {} THEN {<<>>}
    ELSE UNION {{<<i>> \o o : o \in Orderings(table, I \ {i})} : i \in TopIds(table, I)}

\* row.username || 'Anonymous'
Anonymous == UserString(9, TRUE)

\* one entry of the Hall of Fame: the row ranked n (of the columns of the
\* entry, total_hits and avg_accuracy are left out)
LeaderboardEntry(row, n) ==
    [rank |-> n,
     username |-> IF NoUsername(row.username) THEN Anonymous ELSE row.username,
     speed_score |-> row.speed_score, performance_score |-> row.performance_score,
     created_at |-> row.created_at, badges |-> row.badges, is_ai |-> row.is_ai,
     ai_model |-> row.ai_model]

\* mutant of getHallOfFame: WHERE is_ai = false is left out
getHallOfFameAll(table) ==
    {[n \in 1..Min(HallOfFameLimit, Len(o)) |-> LeaderboardEntry(table[o[n]], n)] :
        o \in Orderings(table, 1..Len(table))}

\* getHallOfFame: ROW_NUMBER() OVER (ORDER BY performance_score DESC) and the
\* query's ORDER BY performance_score DESC name the same order, which
\* PostgreSQL sorts once: the rows come in the order they are numbered in
getHallOfFame(table) ==
    {[n \in 1..Min(HallOfFameLimit, Len(o)) |-> LeaderboardEntry(table[o[n]], n)] :
        o \in Orderings(table, HumanIds(table))}

\* INTERVAL '24 hours', in ms
Day == 86400000

\* getTodaysBest: the Hall of Fame of the rows created_at >= NOW() - 24 hours
getTodaysBest(table, at) ==
    {[n \in 1..Min(HallOfFameLimit, Len(o)) |-> LeaderboardEntry(table[o[n]], n)] :
        o \in Orderings(table, {i \in HumanIds(table) : table[i].created_at >= at - Day})}

\* row.username || row.ai_model || 'AI': a name stands for its length
ModelName == UserString(6, TRUE)
AiName == UserString(2, TRUE)

BenchmarkEntry(row, n) ==
    [LeaderboardEntry(row, n) EXCEPT
        !.username = IF ~NoUsername(row.username) THEN row.username
                     ELSE IF row.ai_model # NoModel THEN ModelName ELSE AiName]

\* getAIBenchmarks: every row WHERE is_ai = true, ranked the same way
getAIBenchmarks(table) ==
    {[n \in 1..Len(o) |-> BenchmarkEntry(table[o[n]], n)] :
        o \in Orderings(table, (1..Len(table)) \ HumanIds(table))}

\* the ids of I that no id of I was created after
LatestIds(table, I) ==
    {i \in I : \A j \in I : table[j].created_at <= table[i].created_at}

RECURSIVE RecentFirst(_, _)
\* ORDER BY created_at DESC of the rows I
RecentFirst(table, I) ==
    IF I = {} THEN {<<>>}
    ELSE UNION {{<<i>> \o o : o \in RecentFirst(table, I \ {i})} : i \in LatestIds(table, I)}

ScatterPoint(row) ==
    [x |-> row.speed_score, y |-> row.performance_score,
     type |-> IF row.is_ai THEN "ai" ELSE "human", model |-> row.ai_model,
     username |-> row.username]

\* getScatterData(limit): the limit latest rows, humans and benchmarks
getScatterData(table, limit) ==
    {[n \in 1..Min(limit, Len(o)) |-> ScatterPoint(table[o[n]])] :
        o \in RecentFirst(table, 1..Len(table))}

---------------------------------------------------------------------------
(* POST /api/runs: the handler *)

NoRanks == [rank |-> 0, percentile |-> 0]
NoComparisons == [k \in {} |-> Deltas([speed_score |-> 0, performance_score |-> 0], 0, 0)]

NoRes ==
    [status |-> 0, error |-> "", id |-> 0, speed |-> 0, performance |-> 0,
     speedRanking |-> NoRanks, performanceRanking |-> NoRanks, vs_ai |-> NoComparisons]
ErrorRes(status, msg) == [NoRes EXCEPT !.status = status, !.error = msg]

NoStats ==
    [kind |-> "undefined", totalHits |-> Undefined, avgAccuracy |-> Undefined,
     bestAccuracy |-> Undefined, finalRadius |-> Undefined, durationMs |-> Undefined]
NoLogs == [kind |-> "undefined", items |-> <<>>]
NoBadges == [kind |-> "undefined", items |-> <<>>]
NoReq == [username |-> NoUser, stats |-> NoStats, click_logs |-> NoLogs,
          badges |-> NoBadges]
NoRet == [valid |-> FALSE, error |-> "not called"]

\* a request arrives
Receive(body) ==
    /\ pc \in {"idle", "done"}
    /\ Len(runs) < MaxRuns
    /\ req' = body
    /\ res' = NoRes
    /\ calls' = <<>>
    /\ pc' = "received"
    /\ UNCHANGED <<runs, arg, ret, others>>

\* mutant of Handle: the run is inserted before the verdict is looked at
HandleInsertFirst ==
    /\ pc = "received"
    /\ calls' = validation(req).calls
    /\ runs' = insertRun(runs, runRecord(req), now)
    /\ IF ~validation(req).valid
       THEN res' = ErrorRes(400, validation(req).error) /\ pc' = "done"
       ELSE res' = NoRes /\ pc' = "inserted"
    /\ UNCHANGED <<req, arg, ret, others>>

\* the handler up to await insertRun: a rejection answers 400 and returns;
\* an accepted run is inserted, or insertRun throws and the catch answers 500
Handle ==
    /\ pc = "received"
    /\ calls' = validation(req).calls
    /\ IF ~validation(req).valid
       THEN /\ res' = ErrorRes(400, validation(req).error)
            /\ pc' = "done"
            /\ runs' = runs
       ELSE \/ /\ runs' = insertRun(runs, runRecord(req), now)
               /\ res' = NoRes
               /\ pc' = "inserted"
            \/ /\ runs' = runs
               /\ res' = ErrorRes(500, "Internal server error")
               /\ pc' = "done"
    /\ UNCHANGED <<req, arg, ret, others>>

\* the handler after the insert: the ranking queries and the answer, or a
\* query throws and the catch answers 500
Respond ==
    /\ pc = "inserted"
    /\ \/ LET speedScore == runs[Len(runs)].speed_score
                 performanceScore == runs[Len(runs)].performance_score
             IN  \E aiComparisons \in getAIComparisons(runs, speedScore, performanceScore) :
                    res' = [status |-> 200, error |-> "", id |-> runs[Len(runs)].id,
                            speed |-> speedScore, performance |-> performanceScore,
                            speedRanking |->
                                [rank |-> getCurrentRank(runs, speedScore, "speed"),
                                 percentile |->
                                    calculatePercentile(runs, speedScore, "speed")],
                            performanceRanking |->
                                [rank |->
                                    getCurrentRank(runs, performanceScore, "performance"),
                                 percentile |->
                                    calculatePercentile(runs, performanceScore,
                                                        "performance")],
                            vs_ai |-> aiComparisons]
       \/ res' = ErrorRes(500, "Internal server error")
    /\ pc' = "done"
    /\ UNCHANGED <<runs, req, calls, arg, ret, others>>

---------------------------------------------------------------------------
(* GET /api/leaderboard *)

\* let cachedData = null
NoCache == [kind |-> "null"]
\* const CACHE_DURATION = 5 * 60 * 1000
CACHE_DURATION == 300000
\* getScatterData(150)
ScatterLimit == 150

NoBoardRes == [status |-> 0, error |-> "", data |-> NoCache, warning |-> FALSE]
BoardRes(data, warning) == [status |-> 200, error |-> "", data |-> data, warning |-> warning]
BoardError == [status |-> 500, error |-> "Internal server error", data |-> NoCache, warning |-> FALSE]

\* what the four queries answer, put together: the store is read at one
\* instant, at
leaderboardData(table, at) ==
    {[kind |-> "object", hall_of_fame |-> h, todays_best |-> t, ai_benchmarks |-> a,
      scatter_data |-> d, cache_timestamp |-> at,
      total_entries |-> [hall_of_fame |-> Len(h), todays_best |-> Len(t),
                         ai_benchmarks |-> Len(a), scatter_points |-> Len(d)]] :
        h \in getHallOfFame(table), t \in getTodaysBest(table, at),
        a \in getAIBenchmarks(table), d \in getScatterData(table, ScatterLimit)}

\* a GET request arrives
GetReceive ==
    /\ lpc \in {"idle", "done"}
    /\ lpc' = "received"
    /\ lres' = NoBoardRes
    /\ UNCHANGED <<runs, req, res, calls, pc, arg, ret, now, cachedData, cacheTimestamp,
                   ppc, preq, pres, client, concurrent>>

\* mutant of cacheFresh: a cache of exactly CACHE_DURATION is served too
cacheFreshInclusive(at) == cachedData # NoCache /\ at - cacheTimestamp <= CACHE_DURATION

\* cachedData && cacheAge < CACHE_DURATION at const now = Date.now()
cacheFresh(at) == cachedData # NoCache /\ at - cacheTimestamp < CACHE_DURATION

\* mutant of GetServe: a failed query empties the cache
GetServeDropCache ==
    /\ lpc = "received"
    /\ \/ /\ cacheFresh(now)
          /\ lres' = BoardRes(cachedData, FALSE)
          /\ UNCHANGED <<cachedData, cacheTimestamp>>
       \/ /\ ~cacheFresh(now)
          /\ \E data \in leaderboardData(runs, now) :
                /\ cachedData' = data
                /\ cacheTimestamp' = now
                /\ lres' = BoardRes(data, FALSE)
       \/ /\ ~cacheFresh(now)
          /\ lres' = IF cachedData # NoCache THEN BoardRes(cachedData, TRUE) ELSE BoardError
          /\ cachedData' = NoCache
          /\ cacheTimestamp' = 0
    /\ lpc' = "done"
    /\ UNCHANGED <<runs, req, res, calls, pc, arg, ret, now, ppc, preq, pres, client,
                   concurrent>>

\* the handler: a fresh cache is the answer; otherwise the queries answer
\* and the answer is cached under now, or a query throws and the catch
\* serves the cache, stale as it is, with a warning, or answers 500 when
\* there is none
GetServe ==
    /\ lpc = "received"
    /\ \/ /\ cacheFresh(now)
          /\ lres' = BoardRes(cachedData, FALSE)
          /\ UNCHANGED <<cachedData, cacheTimestamp>>
       \/ /\ ~cacheFresh(now)
          /\ \E data \in leaderboardData(runs, now) :
                /\ cachedData' = data
                /\ cacheTimestamp' = now
                /\ lres' = BoardRes(data, FALSE)
       \/ /\ ~cacheFresh(now)
          /\ lres' = IF cachedData # NoCache THEN BoardRes(cachedData, TRUE) ELSE BoardError
          /\ UNCHANGED <<cachedData, cacheTimestamp>>
    /\ lpc' = "done"
    /\ UNCHANGED <<runs, req, res, calls, pc, arg, ret, now, ppc, preq, pres, client,
                   concurrent>>

---------------------------------------------------------------------------
(* PATCH /api/runs/[id]/username *)

\* req.query.id: the digits of a number, or text that Number() makes NaN
RunId(n) == [numeric |-> TRUE, n |-> n]
BadRunId == [numeric |-> FALSE, n |-> 0]

NoPatch == [id |-> BadRunId, username |-> NoUser]
NoPatchRes == [status |-> 0, error |-> ""]
PatchRes(status, msg) == [status |-> status, error |-> msg]

\* SELECT id, username, created_at FROM runs WHERE id = runId
Found(table, id) == id.n \in 1..Len(table)

\* mutant of tooOld: no run is too old
tooOldNever(at, created_at) == FALSE

\* (now - createdAt) / (1000 * 60 * 60) > 24
tooOld(at, created_at) == at - created_at > Day

\* the handler up to the age check: what it answers when it returns early
patchRejection(table, id, username, at) ==
    IF ~id.numeric THEN PatchRes(400, "Invalid run ID")
    ELSE IF ~validateUsername(username).valid
        THEN PatchRes(400, validateUsername(username).error)
    ELSE IF ~Found(table, id) THEN PatchRes(404, "Run not found")
    ELSE IF tooOld(at, table[id.n].created_at)
        THEN PatchRes(403, "Run is too old to update username")
    ELSE NoPatchRes

\* mutant of Patch: the UPDATE has no WHERE id = runId
PatchEveryRun(id, username) ==
    /\ ppc \in {"idle", "done"}
    /\ preq' = [id |-> id, username |-> username]
    /\ \/ /\ patchRejection(runs, id, username, now) # NoPatchRes
          /\ pres' = patchRejection(runs, id, username, now)
          /\ runs' = runs
       \/ /\ patchRejection(runs, id, username, now) = NoPatchRes
          /\ runs' = [i \in 1..Len(runs) |->
                        [runs[i] EXCEPT !.username =
                            IF NoUsername(username) THEN NoUser ELSE username]]
          /\ pres' = PatchRes(200, "")
       \/ /\ id.numeric /\ validateUsername(username).valid
          /\ pres' = PatchRes(500, "Internal server error")
          /\ runs' = runs
    /\ ppc' = "done"
    /\ UNCHANGED <<req, res, calls, pc, arg, ret, now, cachedData, cacheTimestamp,
                   lpc, lres, client, concurrent>>

\* the handler: a request that fails a check is answered and nothing is
\* written; otherwise UPDATE runs SET username = ${username || null} WHERE
\* id = runId; the SELECT or the UPDATE throwing answers 500
Patch(id, username) ==
    /\ ppc \in {"idle", "done"}
    /\ preq' = [id |-> id, username |-> username]
    /\ \/ /\ patchRejection(runs, id, username, now) # NoPatchRes
          /\ pres' = patchRejection(runs, id, username, now)
          /\ runs' = runs
       \/ /\ patchRejection(runs, id, username, now) = NoPatchRes
          /\ runs' = [runs EXCEPT ![id.n].username =
                            IF NoUsername(username) THEN NoUser ELSE username]
          /\ pres' = PatchRes(200, "")
       \/ /\ id.numeric /\ validateUsername(username).valid
          /\ pres' = PatchRes(500, "Internal server error")
          /\ runs' = runs
    /\ ppc' = "done"
    /\ UNCHANGED <<req, res, calls, pc, arg, ret, now, cachedData, cacheTimestamp,
                   lpc, lres, client, concurrent>>

---------------------------------------------------------------------------
(* Requests *)

Rec(t, cx, cy, tx, ty, r, d, hit, a) ==
    [kind |-> "object", t |-> t, cx |-> cx, cy |-> cy, tx |-> tx, ty |-> ty,
     r |-> r, d |-> d, hit |-> hit, a |-> a]

\* a hit 5 px off the centre of a target of radius 20: accuracy 0.75
hitA == Rec(Num(1000), Num(100), Num(100), Num(103), Num(104), Num(20), Num(5),
            Bool(TRUE), Num(75))
\* a hit 3 px off the centre of a target of radius 20: accuracy 0.85
hitB == Rec(Num(2000), Num(150), Num(153), Num(150), Num(150), Num(20), Num(3),
            Bool(TRUE), Num(85))
\* the miss that ends a run: 5 px off the centre of a target of radius 4
miss == Rec(Num(3000), Num(200), Num(200), Num(203), Num(204), Num(4), Num(5),
            Bool(FALSE), Undefined)
\* a click 5 px off the centre of a target of radius 4, reported as a hit at
\* distance 1
forged == Rec(Num(2000), Num(100), Num(100), Num(103), Num(104), Num(4), Num(1),
              Bool(TRUE), Num(75))
badType == Rec(Num(1000), Str, Num(100), Num(103), Num(104), Num(20), Num(5),
               Bool(TRUE), Num(75))
badRange == Rec(Num(1000), Num(100), Num(100), Num(103), Num(104), Num(0), Num(5),
                Bool(FALSE), Undefined)
nullRec == [kind |-> "null", t |-> Undefined, cx |-> Undefined, cy |-> Undefined,
            tx |-> Undefined, ty |-> Undefined, r |-> Undefined, d |-> Undefined,
            hit |-> Undefined, a |-> Undefined]

SeqsUpTo(S, n) == UNION {[1..m -> S] : m \in 0..n}

Array(items) == [kind |-> "array", items |-> items]
NotArray == [kind |-> "object", items |-> <<>>]

Stats(h, avg, best, radius, dur) ==
    [kind |-> "object", totalHits |-> h, avgAccuracy |-> avg, bestAccuracy |-> best,
     finalRadius |-> radius, durationMs |-> dur]
NotObject == [NoStats EXCEPT !.kind = "string"]

Body(username, stats, logs, badges) ==
    [username |-> username, stats |-> stats, click_logs |-> logs, badges |-> badges]

WideStats ==
    {Stats(Num(h), Num(avg), Num(95), Num(15), Num(dur)) :
        h \in 0..MaxLogLen, avg \in {76, 79, 86}, dur \in {150, 2000, 7000, 8001}}
    \cup {NoStats, NotObject,
          Stats(Undefined, Num(79), Num(95), Num(15), Num(2000)),
          Stats(Num(1), Num(150), Num(95), Num(15), Num(2000)),
          Stats(Num(1), Num(79), Num(150), Num(15), Num(2000)),
          Stats(Num(1), Num(79), Num(95), Num(0), Num(2000)),
          Stats(Num(1), Num(79), Num(95), Num(15), Num(3600001)),
          Stats(Num(1001), Num(79), Num(95), Num(15), Num(2000))}

WideLogs ==
    {Array(s) : s \in SeqsUpTo({hitA, hitB, miss, forged, badType, badRange, nullRec},
                               MaxLogLen)}
    \cup {NoLogs, NotArray}

SomeUsers == {NoUser, UserString(5, TRUE), UserString(25, TRUE), UserString(5, FALSE),
              UserNumber}

SomeBadges ==
    {NoBadges, Array(<<>>), Array(<<"sharpshooter">>), Array(<<"invalid_badge">>),
     Array(<<"sharpshooter", "invalid_badge", "other_badge">>),
     [kind |-> "string", items |-> <<>>], Array(Repeat("speed_demon", 11))}

\* every summary and log, anonymous and without badges; and every username
\* and badges field with a few summaries and logs
Bodies ==
    {Body(NoUser, s, l, NoBadges) : s \in WideStats, l \in WideLogs}
    \cup {Body(u, s, l, b) :
            u \in SomeUsers, b \in SomeBadges,
            s \in {Stats(Num(2), Num(79), Num(95), Num(15), Num(2000)),
                   Stats(Num(2), Num(79), Num(95), Num(15), Num(150)),
                   Stats(Num(3), Num(79), Num(95), Num(15), Num(2000))},
            l \in {Array(<<hitA, hitB>>), Array(<<hitA, badRange>>), Array(<<forged>>),
                   NotArray}}

\* the requests of the specification with a growing store
FewBodies ==
    {Body(NoUser, Stats(Num(h), Num(avg), Num(95), Num(15), Num(dur)), Array(l), b) :
        h \in {1, 2}, avg \in {76, 79}, dur \in {2000, 6000},
        l \in {<<hitA>>, <<hitA, hitB>>, <<hitA, badRange>>},
        b \in {NoBadges, Array(<<"sharpshooter">>)}}
    \cup {Body(UserString(25, TRUE), Stats(Num(1), Num(76), Num(95), Num(15), Num(2000)),
               Array(<<hitA>>), NoBadges),
          Body(NoUser, Stats(Num(1), Num(76), Num(95), Num(15), Num(2000)),
               Array(<<hitA>>), Array(<<"invalid_badge">>)),
          Body(NoUser, Stats(Num(1), Num(76), Num(95), Num(15), Num(50)),
               Array(<<hitA>>), NoBadges),
          Body(NoUser, NoStats, Array(<<hitA>>), NoBadges)}

\* the requests of the service: a run that is accepted, one that is rejected
AcceptedBody ==
    Body(UserString(5, TRUE), Stats(Num(1), Num(76), Num(95), Num(15), Num(2000)),
         Array(<<hitA>>), NoBadges)
ServiceBodies == {AcceptedBody, Body(NoUser, NoStats, Array(<<hitA>>), NoBadges)}

\* the PATCH requests: no name or a new name for a run, a name too long,
\* text for an id
PatchRequests ==
    {[id |-> RunId(1), username |-> NoUser],
     [id |-> RunId(2), username |-> UserString(7, TRUE)],
     [id |-> RunId(2), username |-> UserString(25, TRUE)],
     [id |-> BadRunId, username |-> UserString(7, TRUE)]}

\* the instants the clock shows, in ms since the server started: around
\* CACHE_DURATION and around 24 hours
CacheInstants == {0, 299999, 300000}
AgeInstants == {0, 86400000, 86400001}

---------------------------------------------------------------------------
(* The game client: CONFIG, the game logic, RunState, the handlers *)

\* CONFIG.CONTAINER_SIDE: min(600px, 80vw, 80vh)
CONTAINER_SIDE == 600
\* CONFIG.MIN_RADIUS_PX
MIN_RADIUS_PX == 1
\* CONFIG.SHRINK_STEPS_APPROX
SHRINK_STEPS_APPROX == 20
\* CONFIG.CURSOR_OFFSET_X, CONFIG.CURSOR_OFFSET_Y
CURSOR_OFFSET_X == 3
CURSOR_OFFSET_Y == 3

\* null as a field value: typeof null is 'object'
Null == [type |-> "object", v |-> 0]
\* startTs and endTs before they are set: null
NoTs == 0

Max(a, b) == IF a > b THEN a ELSE b

\* Math.hypot(x2 - x1, y2 - y1): exact along an axis, where the clicks of
\* the model lie; elsewhere the root is kept to the pixel
calculateDistance(x1, y1, x2, y2) ==
    IF y1 = y2 THEN Abs(x2 - x1)
    ELSE IF x1 = x2 THEN Abs(y2 - y1)
    ELSE LET s == (x2 - x1) * (x2 - x1) + (y2 - y1) * (y2 - y1)
         IN  CHOOSE d \in 0..(Abs(x2 - x1) + Abs(y2 - y1)) :
                d * d <= s /\ s < (d + 1) * (d + 1)

\* 1.0 within 5% of the radius of the centre, Math.max(0, 1 - d / r)
\* outside, in hundredths; the clicks of the model are those where the
\* quotient is a whole number of hundredths
accuracyUnweighted(d, r) ==
    IF 20 * d <= r THEN One
    ELSE IF r = 0 THEN 0
    ELSE Max(0, (One * (r - d)) \div r)

nextRadius(r, dr) == Max(MIN_RADIUS_PX, r - dr)

\* the click of a pointer px to the right and py below the corner of the
\* game area (e.clientX - rect.left, e.clientY - rect.top)
relCoords(px, py) == [cx |-> px - CURSOR_OFFSET_X, cy |-> py - CURSOR_OFFSET_Y]

\* where Math.random puts a target: anywhere from radius to side - radius
\* on both axes; the model draws the near corner and the middle
randomTarget(side, radius) == {[x |-> v, y |-> v] : v \in {radius, side \div 2}}

\* new ClickEventLog(...); w and s, which are not submitted, are left out
ClickEventLog(t, cx, cy, tx, ty, r, d, hit, a) ==
    [t |-> t, cx |-> cx, cy |-> cy, tx |-> tx, ty |-> ty, r |-> r, d |-> d,
     hit |-> hit, a |-> a]

\* new RunState(); totalWeightedScore, which is not submitted, is left out
NewRunState ==
    [phase |-> "idle", startTs |-> NoTs, endTs |-> NoTs, hits |-> 0, currentR |-> 0,
     startR |-> 0, deltaR |-> 0, target |-> [x |-> 0, y |-> 0], logs |-> <<>>,
     totalAccuracy |-> 0, bestAccuracy |-> 0, finalRadius |-> 0]

reset(rs) ==
    [rs EXCEPT !.phase = "idle", !.startTs = NoTs, !.endTs = NoTs, !.hits = 0,
               !.currentR = 0, !.startR = 0, !.deltaR = 0,
               !.target = [x |-> 0, y |-> 0], !.logs = <<>>, !.totalAccuracy = 0,
               !.bestAccuracy = 0, !.finalRadius = 0]

\* mutant of startGame: the radius shrinks by one pixel a hit
startGameUnitStep(rs, containerSize, at) ==
    LET startR == containerSize \div 10
    IN  [rs EXCEPT !.phase = "playing", !.startTs = at, !.endTs = NoTs, !.hits = 0,
                   !.startR = startR, !.currentR = startR, !.deltaR = 1,
                   !.logs = <<>>, !.totalAccuracy = 0, !.bestAccuracy = 0,
                   !.finalRadius = startR]

\* Math.floor(0.10 * containerSize) and Math.max(1, Math.ceil(startR / 20))
startGame(rs, containerSize, at) ==
    LET startR == containerSize \div 10
    IN  [rs EXCEPT !.phase = "playing", !.startTs = at, !.endTs = NoTs, !.hits = 0,
                   !.startR = startR, !.currentR = startR,
                   !.deltaR = Max(1, (startR + SHRINK_STEPS_APPROX - 1)
                                        \div SHRINK_STEPS_APPROX),
                   !.logs = <<>>, !.totalAccuracy = 0, !.bestAccuracy = 0,
                   !.finalRadius = startR]

endGame(rs, at) == [rs EXCEPT !.phase = "ended", !.endTs = at]

\* mutant of recordHit: the best accuracy is that of the last hit
recordHitLastBest(rs, clickLog) ==
    LET logged == [rs EXCEPT !.hits = @ + 1, !.logs = Append(@, clickLog)]
    IN  IF clickLog.a # Null
        THEN [logged EXCEPT !.totalAccuracy = @ + clickLog.a.v,
                            !.bestAccuracy = clickLog.a.v,
                            !.finalRadius = clickLog.r]
        ELSE logged

recordHit(rs, clickLog) ==
    LET logged == [rs EXCEPT !.hits = @ + 1, !.logs = Append(@, clickLog)]
    IN  IF clickLog.a # Null
        THEN [logged EXCEPT !.totalAccuracy = @ + clickLog.a.v,
                            !.bestAccuracy = Max(@, clickLog.a.v),
                            !.finalRadius = clickLog.r]
        ELSE logged

recordMiss(rs, clickLog, at) == endGame([rs EXCEPT !.logs = Append(@, clickLog)], at)

\* totalAccuracy / hits, kept to the hundredth
getAverageAccuracy(rs) == IF rs.hits > 0 THEN rs.totalAccuracy \div rs.hits ELSE 0

getDuration(rs, at) ==
    LET end == IF rs.endTs # NoTs THEN rs.endTs ELSE at
    IN  IF rs.startTs # NoTs THEN end - rs.startTs ELSE 0

\* the instant, in ms since the page was loaded, at which a run is started:
\* what a run does depends on the clock through the time since its start
StartInstant == 1000

\* handleStart: transitionToPlaying starts the game and places the first
\* target
handleStart ==
    /\ \E target \in randomTarget(gameArea, gameArea \div 10) :
            runState' = [startGame(runState, gameArea, StartInstant)
                            EXCEPT !.target = target]
    /\ clock' = StartInstant
    /\ UNCHANGED <<runs, req, res, calls, pc, arg, ret, now, cachedData, cacheTimestamp,
                   lpc, lres, ppc, preq, pres, gameArea, concurrent>>

\* what a processed click makes of the run: the record is logged; a hit
\* shrinks the target and ends the run at the minimum radius or moves the
\* target; a miss ends the run
clicked(rs, px, py, at) ==
    LET coords == relCoords(px, py)
        tx == rs.target.x
        ty == rs.target.y
        distance == calculateDistance(coords.cx, coords.cy, tx, ty)
        isHit == distance <= rs.currentR
        elapsedMs == at - rs.startTs
        accuracy == IF isHit THEN Num(accuracyUnweighted(distance, rs.currentR))
                    ELSE Null
        clickLog == ClickEventLog(elapsedMs, coords.cx, coords.cy, tx, ty,
                                  rs.currentR, distance, isHit, accuracy)
        hit == recordHit(rs, clickLog)
        shrunk == [hit EXCEPT !.currentR = nextRadius(hit.currentR, hit.deltaR)]
    IN  IF ~isHit THEN {endGame(recordMiss(rs, clickLog, at), at)}
        ELSE IF shrunk.currentR <= MIN_RADIUS_PX THEN {endGame(shrunk, at)}
        ELSE {[shrunk EXCEPT !.target = target] :
                target \in randomTarget(gameArea, shrunk.currentR)}

\* the clicks of a player: on the horizontal through the centre of the
\* target, on the centre, half way out, on the edge or a pixel outside it,
\* a short or a long while after the last; from the click after
\* MaxFreeClicks on, on the centre or a pixel outside, a short while after
FreeClick == Len(runState.logs) < MaxFreeClicks
ClickOffsets ==
    LET r == runState.currentR
    IN  IF FreeClick THEN {0, IF r % 2 = 0 THEN r \div 2 ELSE r, r, r + 1}
        ELSE {0, r + 1}
ClickDelays == IF FreeClick THEN {200, 1500} ELSE {200}
ClickSpots ==
    {spot \in {[px |-> runState.target.x - d + CURSOR_OFFSET_X,
                py |-> runState.target.y + CURSOR_OFFSET_Y] : d \in ClickOffsets} :
        spot.px \in 0..gameArea /\ spot.py \in 0..gameArea}

\* the targets of a run: free up to the target of click MaxFreeClicks, in
\* the middle after
TargetAllowed(rs) ==
    Len(rs.logs) < MaxFreeClicks \/ rs.phase # "playing"
        \/ rs.target.x = gameArea \div 2

\* mutant of handleGameClick: a click is processed in every phase
handleGameClickAnyPhase(px, py, at) ==
    /\ \E rs \in clicked(runState, px, py, at) :
            TargetAllowed(rs) /\ runState' = rs
    /\ clock' = at
    /\ UNCHANGED <<runs, req, res, calls, pc, arg, ret, now, cachedData, cacheTimestamp,
                   lpc, lres, ppc, preq, pres, gameArea, concurrent>>

\* handleGameClick: only a click of the playing phase is processed
handleGameClick(px, py, at) ==
    IF runState.phase # "playing" THEN UNCHANGED vars
    ELSE /\ \E rs \in clicked(runState, px, py, at) :
                TargetAllowed(rs) /\ runState' = rs
         /\ clock' = at
         /\ UNCHANGED <<runs, req, res, calls, pc, arg, ret, now, cachedData,
                        cacheTimestamp, lpc, lres, ppc, preq, pres, gameArea,
                        concurrent>>

\* handleRestart: transitionToIdle resets the run
handleRestart ==
    /\ runState' = reset(runState)
    /\ UNCHANGED <<runs, req, res, calls, pc, arg, ret, now, cachedData, cacheTimestamp,
                   lpc, lres, ppc, preq, pres, gameArea, clock, concurrent>>

\* the window is resized between two runs
Resize(size) ==
    /\ runState.phase = "idle"
    /\ size # gameArea
    /\ gameArea' = size
    /\ UNCHANGED <<runs, req, res, calls, pc, arg, ret, now, cachedData, cacheTimestamp,
                   lpc, lres, ppc, preq, pres, runState, clock, concurrent>>

\* submitGameData: the payload built from the run; JSON.stringify keeps the
\* numbers and turns the accuracy of a miss, null, into null
submitGameData(rs, at) ==
    Body(NoUser,
         Stats(Num(rs.hits), Num(getAverageAccuracy(rs)), Num(rs.bestAccuracy),
               Num(rs.finalRadius), Num(getDuration(rs, at))),
         Array([i \in 1..Len(rs.logs) |->
                    Rec(Num(rs.logs[i].t), Num(rs.logs[i].cx), Num(rs.logs[i].cy),
                        Num(rs.logs[i].tx), Num(rs.logs[i].ty), Num(rs.logs[i].r),
                        Num(rs.logs[i].d), Bool(rs.logs[i].hit), rs.logs[i].a)]),
         Array(<<>>))

\* the sides of the game area: too small for a target, small, and the side
\* of CONFIG on a phone, a tablet and a desktop
ContainerSizes == {5, 15, 30, 50, 400, CONTAINER_SIDE}

---------------------------------------------------------------------------
(* Handlers running side by side *)

NoPosts == [h \in 1..MaxPosts |-> [pc |-> "idle", score |-> 0, totalCount |-> 0,
                                    percentile |-> 0, status |-> 0]]
NoGets == [g \in 1..MaxGets |-> [pc |-> "idle", at |-> 0, data |-> NoCache]]

\* a run slower than that of AcceptedBody
SlowerBody ==
    Body(UserString(5, TRUE), Stats(Num(1), Num(76), Num(95), Num(15), Num(4000)),
         Array(<<hitA>>), NoBadges)
RaceBodies == {AcceptedBody, SlowerBody}

\* POST /api/runs up to await insertRun, as Handle: a rejection answers
\* 400, an accepted run is inserted, or insertRun throws and the catch
\* answers 500
PostHandle(h, body) ==
    /\ posts[h].pc = "idle"
    /\ IF ~validation(body).valid
       THEN /\ posts' = [posts EXCEPT ![h].pc = "done", ![h].status = 400]
            /\ runs' = runs
       ELSE \/ /\ runs' = insertRun(runs, runRecord(body), now)
               /\ posts' = [posts EXCEPT ![h].pc = "inserted",
                                         ![h].score = runRecord(body).speed_score]
            \/ /\ runs' = runs
               /\ posts' = [posts EXCEPT ![h].pc = "done", ![h].status = 500]
    /\ UNCHANGED <<req, res, calls, pc, arg, ret, now, cachedData, cacheTimestamp,
                   lpc, lres, ppc, preq, pres, client, gets>>

\* calculatePercentile(speedScore, 'speed'), first query: the count of the
\* human players; of the queries of Promise.all these two are followed
PostCountTotal(h) ==
    /\ posts[h].pc = "inserted"
    /\ posts' = IF CountHuman(runs) = 0
                THEN [posts EXCEPT ![h].pc = "done", ![h].status = 200,
                                   ![h].percentile = 100]
                ELSE [posts EXCEPT ![h].pc = "counted",
                                   ![h].totalCount = CountHuman(runs)]
    /\ UNCHANGED <<runs, req, res, calls, pc, arg, ret, now, cachedData, cacheTimestamp,
                   lpc, lres, ppc, preq, pres, client, gets>>

\* calculatePercentile, second query: the count of the lower scores, and
\* the answer
PostCountLower(h) ==
    /\ posts[h].pc = "counted"
    /\ posts' = [posts EXCEPT
                    ![h].pc = "done", ![h].status = 200,
                    ![h].percentile = percentage(CountBelow(runs, posts[h].score, "speed"),
                                                 posts[h].totalCount)]
    /\ UNCHANGED <<runs, req, res, calls, pc, arg, ret, now, cachedData, cacheTimestamp,
                   lpc, lres, ppc, preq, pres, client, gets>>

\* a query after the insert throws: the catch answers 500
PostFail(h) ==
    /\ posts[h].pc \in {"inserted", "counted"}
    /\ posts' = [posts EXCEPT ![h].pc = "done", ![h].status = 500]
    /\ UNCHANGED <<runs, req, res, calls, pc, arg, ret, now, cachedData, cacheTimestamp,
                   lpc, lres, ppc, preq, pres, client, gets>>

\* GET /api/leaderboard up to await Promise.all: const now = Date.now(); a
\* fresh cache is the answer, otherwise the queries are sent
GetStart(g) ==
    /\ gets[g].pc = "idle"
    /\ gets' = IF cacheFresh(now)
               THEN [gets EXCEPT ![g].pc = "done", ![g].data = cachedData]
               ELSE [gets EXCEPT ![g].pc = "fetching", ![g].at = now]
    /\ UNCHANGED <<runs, req, res, calls, pc, arg, ret, now, cachedData, cacheTimestamp,
                   lpc, lres, ppc, preq, pres, client, posts>>

\* the queries read the store, or one of them throws and the catch serves
\* what is cached
GetQueries(g) ==
    /\ gets[g].pc = "fetching"
    /\ \/ \E data \in leaderboardData(runs, now) :
                gets' = [gets EXCEPT ![g].pc = "fetched", ![g].data = data]
       \/ gets' = [gets EXCEPT ![g].pc = "done", ![g].data = cachedData]
    /\ UNCHANGED <<runs, req, res, calls, pc, arg, ret, now, cachedData, cacheTimestamp,
                   lpc, lres, ppc, preq, pres, client, posts>>

\* the handler after await Promise.all: the response is built, cached under
\* the now of the handler's start, and sent
GetFill(g) ==
    /\ gets[g].pc = "fetched"
    /\ cachedData' = [gets[g].data EXCEPT !.cache_timestamp = now]
    /\ cacheTimestamp' = gets[g].at
    /\ gets' = [gets EXCEPT ![g].pc = "done", ![g].data = cachedData']
    /\ UNCHANGED <<runs, req, res, calls, pc, arg, ret, now, lpc, lres, ppc, preq, pres,
                   client, posts>>

---------------------------------------------------------------------------
(* Specifications *)

\* the clock at 0, nothing cached, no leaderboard or username request, the
\* game page just loaded, no handler running beside another
Quiet ==
    /\ now = 0
    /\ cachedData = NoCache
    /\ cacheTimestamp = 0
    /\ lpc = "idle"
    /\ lres = NoBoardRes
    /\ ppc = "idle"
    /\ preq = NoPatch
    /\ pres = NoPatchRes
    /\ runState = NewRunState
    /\ gameArea = CONTAINER_SIDE
    /\ clock = 0
    /\ posts = NoPosts
    /\ gets = NoGets

Idle ==
    /\ Quiet
    /\ runs = <<>>
    /\ req = NoReq
    /\ res = NoRes
    /\ calls = <<>>
    /\ arg = NoReq
    /\ ret = NoRet

\* the endpoint with its store, serving one request after the other
Init == Idle /\ pc = "idle"

Next ==
    \/ \E body \in FewBodies : Receive(body)
    \/ Handle
    \/ Respond

Spec == Init /\ [][Next]_vars

\* time passes
Tick(t) ==
    /\ t > now
    /\ now' = t
    /\ UNCHANGED <<runs, req, res, calls, pc, arg, ret, cachedData, cacheTimestamp,
                   lpc, lres, ppc, preq, pres, client, concurrent>>

\* the three endpoints over one store, each serving one request after the
\* other, while the cache expires
NextService ==
    \/ Receive(AcceptedBody)
    \/ Handle
    \/ Respond
    \/ GetReceive
    \/ GetServe
    \/ \E r \in PatchRequests : Patch(r.id, r.username)
    \/ Tick(CACHE_DURATION)

SpecService == Init /\ [][NextService]_vars

\* submissions and username updates while a day passes
NextPatch ==
    \/ \E body \in ServiceBodies : Receive(body)
    \/ Handle
    \/ Respond
    \/ \E r \in PatchRequests : Patch(r.id, r.username)
    \/ \E t \in AgeInstants : Tick(t)

SpecPatch == Init /\ [][NextPatch]_vars

\* submissions and leaderboard reads while the cache ages
NextLeaderboard ==
    \/ \E body \in ServiceBodies : Receive(body)
    \/ Handle
    \/ Respond
    \/ GetReceive
    \/ GetServe
    \/ \E t \in CacheInstants : Tick(t)

SpecLeaderboard == Init /\ [][NextLeaderboard]_vars

\* the game page: runs are started, played and restarted
NextClient ==
    \/ handleStart
    \/ \E spot \in ClickSpots, dt \in ClickDelays :
            handleGameClick(spot.px, spot.py, clock + dt)
    \/ handleRestart
    \/ \E size \in ContainerSizes : Resize(size)

SpecClient == Init /\ [][NextClient]_vars

\* submissions handled side by side
NextPosts ==
    \/ \E h \in 1..MaxPosts, body \in RaceBodies : PostHandle(h, body)
    \/ \E h \in 1..MaxPosts : PostCountTotal(h)
    \/ \E h \in 1..MaxPosts : PostCountLower(h)
    \/ \E h \in 1..MaxPosts : PostFail(h)

SpecPosts == Init /\ [][NextPosts]_vars

\* leaderboard reads handled side by side, while runs are submitted and the
\* cache ages
NextGets ==
    \/ Receive(AcceptedBody)
    \/ Handle
    \/ Respond
    \/ \E g \in 1..MaxGets : GetStart(g)
    \/ \E g \in 1..MaxGets : GetQueries(g)
    \/ \E g \in 1..MaxGets : GetFill(g)
    \/ \E t \in CacheInstants : Tick(t)

SpecGets == Init /\ [][NextGets]_vars

\* one request, whatever its body, against the empty store
InitHandler ==
    /\ Quiet
    /\ runs = <<>>
    /\ req \in Bodies
    /\ res = NoRes
    /\ calls = <<>>
    /\ arg = NoReq
    /\ ret = NoRet
    /\ pc = "received"

NextHandler == Handle \/ Respond

SpecHandler == InitHandler /\ [][NextHandler]_vars

---------------------------------------------------------------------------
(* The validators on their own: the argument is drawn, the validator applied *)

Harness ==
    /\ Quiet
    /\ runs = <<>>
    /\ req = NoReq
    /\ res = NoRes
    /\ calls = <<>>
    /\ ret = NoRet
    /\ pc = "call"

StatsInputs ==
    {Stats(h, avg, best, radius, dur) :
        h \in {Undefined, Str, Bool(TRUE), Num(-1), Num(0), Num(1), Num(10),
               Num(1000), Num(1001)},
        avg \in {Undefined, Num(-1), Num(0), Num(85), Num(100), Num(101)},
        best \in {Str, Num(-1), Num(0), Num(100), Num(101)},
        radius \in {Undefined, Num(0), Num(1), Num(200), Num(201)},
        dur \in {Bool(FALSE), Num(-1), Num(0), Num(99), Num(100), Num(999), Num(1000),
                 Num(99999), Num(100000), Num(3600000), Num(3600001)}}
    \cup {NoStats, NotObject}

InitStats == Harness /\ arg \in StatsInputs

ApplyValidateGameStats ==
    /\ pc = "call"
    /\ ret' = validateGameStats(arg)
    /\ pc' = "returned"
    /\ UNCHANGED <<runs, req, res, calls, arg, others>>

SpecStats == InitStats /\ [][ApplyValidateGameStats]_vars

ClickLogInputs ==
    {Rec(t, cx, cy, tx, ty, r, d, hit, Undefined) :
        t \in {Num(-1), Num(0), Num(600000), Num(600001), Bool(TRUE), Undefined},
        cx \in {Num(-1), Num(0), Num(1000), Num(1001), Str},
        cy \in {Num(0), Num(1001), Bool(FALSE)},
        tx \in {Num(-1), Num(500), Undefined},
        ty \in {Num(1000), Num(1001)},
        r \in {Num(0), Num(1), Num(200), Num(201), Bool(FALSE), Bool(TRUE)},
        d \in {Num(-1), Num(0), Num(1000), Num(1001), Str},
        hit \in {Bool(TRUE), Bool(FALSE), Num(1), Num(0), Str, Undefined}}
    \cup {nullRec}

InitClickLog == Harness /\ arg \in ClickLogInputs

ApplyValidateClickLog ==
    /\ pc = "call"
    /\ ret' = validateClickLog(arg)
    /\ pc' = "returned"
    /\ UNCHANGED <<runs, req, res, calls, arg, others>>

SpecClickLog == InitClickLog /\ [][ApplyValidateClickLog]_vars

\* typed records: hits with an accuracy of 0.80, of 1.00 or none, and misses
ConsistencyRecs ==
    {Rec(Num(t), Num(100), Num(100), Num(103), Num(104), Num(20), Num(5), Bool(TRUE), a) :
        t \in {1000, 7000}, a \in {Undefined, Num(80), Num(100)}}
    \cup {Rec(Num(t), Num(100), Num(100), Num(103), Num(104), Num(4), Num(5), Bool(FALSE),
              Undefined) : t \in {1000, 7000}}

ConsistencyInputs ==
    {[stats |-> Stats(Num(h), Num(avg), Num(100), Num(15), Num(dur)), logs |-> Array(l)] :
        h \in 0..MaxLogLen, avg \in {4, 76, 84, 94}, dur \in {1999, 2000, 6000, 6001},
        l \in SeqsUpTo(ConsistencyRecs, MaxLogLen)}

InitConsistency == Harness /\ arg \in ConsistencyInputs

ApplyValidateGameConsistency ==
    /\ pc = "call"
    /\ ret' = validateGameConsistency(arg.stats, arg.logs)
    /\ pc' = "returned"
    /\ UNCHANGED <<runs, req, res, calls, arg, others>>

SpecConsistency == InitConsistency /\ [][ApplyValidateGameConsistency]_vars

\* calculateSpeedScore applied to a duration and a number of hits
SpeedInputs ==
    {[totalDurationMs |-> d, totalHits |-> h] :
        d \in {0, 50, 99, 100, 101, 200, 350, 700, 1000, 1500, 2000, 3500, 5000, 7000,
               10000, 15000, 24000, 60000, 100000, 600000, 2000000},
        h \in {0, 1, 2, 3, 7, 10, 20, 1000}}

InitSpeed == Harness /\ arg \in SpeedInputs

ApplyCalculateSpeedScore ==
    /\ pc = "call"
    /\ ret' = calculateSpeedScore(arg.totalDurationMs, arg.totalHits)
    /\ pc' = "returned"
    /\ UNCHANGED <<runs, req, res, calls, arg, others>>

SpecSpeed == InitSpeed /\ [][ApplyCalculateSpeedScore]_vars

\* accuracies of 0 to 1 in hundredths, hits up to and past the cap of 20
PerformanceInputs ==
    {[averageAccuracy |-> a, totalHits |-> h] : a \in 0..One, h \in (0..22) \cup {40}}

InitPerformance == Harness /\ arg \in PerformanceInputs

ApplyCalculatePerformanceScore ==
    /\ pc = "call"
    /\ ret' = calculatePerformanceScore(arg.averageAccuracy, arg.totalHits)
    /\ pc' = "returned"
    /\ UNCHANGED <<runs, req, res, calls, arg, others>>

SpecPerformance == InitPerformance /\ [][ApplyCalculatePerformanceScore]_vars

\* a hit with accuracy a (hundredths), 0 px off the centre when it is 1.0
BadgeHit(a) ==
    Rec(Num(1000), Num(100), Num(100), Num(100), Num(100), Num(20),
        Num((20 * (One - a)) \div One), Bool(TRUE), Num(a))

\* click logs of n hits of accuracy a, the last one of accuracy last, with
\* or without the miss that ends a run
BadgeLogs ==
    {[i \in 1..n |-> IF i = n THEN BadgeHit(last) ELSE BadgeHit(a)] \o tail :
        n \in {4, 5, 6, 14, 15}, a \in {80, One}, last \in {79, 80, One},
        tail \in {<<>>, <<miss>>}}

\* GameStats on either side of each threshold, as createMockStats builds them
BadgeInputs ==
    {[totalHits |-> h, avgAccuracy |-> avg, bestAccuracy |-> best, finalRadius |-> 15,
      durationMs |-> 20000, speedScore |-> speed, performanceScore |-> perf,
      badges |-> <<>>, clickLogs |-> l] :
        h \in {24, 25}, avg \in {90, 91}, best \in {98, 99}, speed \in {850, 851},
        perf \in {900, 901}, l \in BadgeLogs}

InitBadges == Harness /\ arg \in BadgeInputs

ApplyDetermineBadges ==
    /\ pc = "call"
    /\ ret' = determineBadges(arg)
    /\ pc' = "returned"
    /\ UNCHANGED <<runs, req, res, calls, arg, others>>

SpecBadges == InitBadges /\ [][ApplyDetermineBadges]_vars

\* rows of the runs table as the queries read them
Row(ai, model, speed, performance, at) ==
    [id |-> 0, is_ai |-> ai, ai_model |-> model, created_at |-> at,
     username |-> NoUser, speed_score |-> speed, performance_score |-> performance,
     badges |-> {}]

\* humans, two of them level on speed, and benchmarks as the migration seeds
\* them and as the test of getAIComparisons reads them
QueryRows ==
    {Row(FALSE, NoModel, 800, 850, 0), Row(FALSE, NoModel, 800, 700, 0),
     Row(FALSE, NoModel, 650, 900, 0), Row(TRUE, "chatgpt_4", 785, 823, 0),
     Row(TRUE, "claude", 721, 885, 0), Row(TRUE, "average_human", 650, 600, 0)}

\* SERIAL PRIMARY KEY: the rows are numbered as they were inserted
Numbered(rows) == [i \in 1..Len(rows) |-> [rows[i] EXCEPT !.id = i]]

QueryTables == {Numbered(rows) : rows \in SeqsUpTo(QueryRows, MaxTable)}

QueryInputs ==
    {[table |-> t, speedScore |-> s, performanceScore |-> p, metric |-> m] :
        t \in QueryTables, s \in {650, 800}, p \in {700, 850},
        m \in {"speed", "performance"}}

ScoreOf(a) == IF a.metric = "speed" THEN a.speedScore ELSE a.performanceScore

InitQueries == Harness /\ arg \in QueryInputs

ApplyGetCurrentRank ==
    /\ pc = "call"
    /\ ret' = [of |-> "getCurrentRank",
               value |-> getCurrentRank(arg.table, ScoreOf(arg), arg.metric)]
    /\ pc' = "returned"
    /\ UNCHANGED <<runs, req, res, calls, arg, others>>

ApplyCalculatePercentile ==
    /\ pc = "call"
    /\ ret' = [of |-> "calculatePercentile",
               value |-> calculatePercentile(arg.table, ScoreOf(arg), arg.metric)]
    /\ pc' = "returned"
    /\ UNCHANGED <<runs, req, res, calls, arg, others>>

ApplyGetAIComparisons ==
    /\ pc = "call"
    /\ \E c \in getAIComparisons(arg.table, arg.speedScore, arg.performanceScore) :
            ret' = [of |-> "getAIComparisons", value |-> c]
    /\ pc' = "returned"
    /\ UNCHANGED <<runs, req, res, calls, arg, others>>

NextQueries ==
    \/ ApplyGetCurrentRank
    \/ ApplyCalculatePercentile
    \/ ApplyGetAIComparisons

SpecQueries == InitQueries /\ [][NextQueries]_vars

\* performance scores of a table of n rows: all different and rising or
\* falling with the id, or level in pairs or in threes
BoardScore(pattern, i) ==
    CASE pattern = "rising" -> 100 + 10 * i
      [] pattern = "falling" -> 900 - 10 * i
      [] pattern = "pairs" -> 100 + 10 * ((i + 1) \div 2)
      [] pattern = "threes" -> 900 - 10 * (i \div 3)

\* the rows of the benchmarks in a table: none, or every fourth from the
\* first; every row has a speed score of its own
BoardIsAi(mask, i) == mask = "benchmarks" /\ i % 4 = 1

BoardTable(n, pattern, mask) ==
    [i \in 1..n |->
        [Row(BoardIsAi(mask, i), IF BoardIsAi(mask, i) THEN "claude" ELSE NoModel,
             500 + i, BoardScore(pattern, i), 0) EXCEPT !.id = i]]

BoardTables ==
    {BoardTable(n, pattern, mask) :
        n \in 0..MaxBoard, pattern \in {"rising", "falling", "pairs", "threes"},
        mask \in {"humans", "benchmarks"}}

InitBoard == Harness /\ arg \in BoardTables

ApplyGetHallOfFame ==
    /\ pc = "call"
    /\ ret' \in getHallOfFame(arg)
    /\ pc' = "returned"
    /\ UNCHANGED <<runs, req, res, calls, arg, others>>

SpecBoard == InitBoard /\ [][ApplyGetHallOfFame]_vars

---------------------------------------------------------------------------
(* What the specification says of the validators, stated without them *)

\* §4.2 stage 1: the five fields numeric, each in its range, and not less
\* than 100 ms per hit
SummaryTyped(s) ==
    s.kind = "object" /\ \A i \in 1..Len(StatsFields) : s[StatsFields[i]].type = "number"

SummaryInRange(s) ==
    /\ s.totalHits.v \in 0..1000
    /\ s.avgAccuracy.v \in 0..One
    /\ s.bestAccuracy.v \in 0..One
    /\ s.finalRadius.v \in 1..200
    /\ s.durationMs.v \in 0..3600000

HumanPaced(s) == s.totalHits.v = 0 \/ s.durationMs.v >= 100 * s.totalHits.v

SummaryAcceptable(s) == SummaryTyped(s) /\ SummaryInRange(s) /\ HumanPaced(s)

\* §4.2 stage 2: t, cx, cy, tx, ty, r, d numbers and hit a boolean, each in
\* its range
RecordTyped(l) ==
    /\ l.kind = "object"
    /\ \A f \in {"t", "cx", "cy", "tx", "ty", "r", "d"} : l[f].type = "number"
    /\ l.hit.type = "boolean"

RecordInRange(l) ==
    /\ l.t.v \in 0..600000
    /\ \A f \in {"cx", "cy", "tx", "ty"} : l[f].v \in 0..1000
    /\ l.r.v \in 1..200
    /\ l.d.v \in 0..1000

RecordAcceptable(l) == RecordTyped(l) /\ RecordInRange(l)

\* §4.2 stage 3, over the records of a log l; a hit without an accuracy counts
\* as accuracy 0, a log without records has no maximum elapsed time to compare
\* and a log without hits no mean
HitIndices(l) == {i \in 1..Len(l) : l[i].hit = Bool(TRUE)}
MissIndices(l) == {i \in 1..Len(l) : l[i].hit # Bool(TRUE)}

RECURSIVE AccuracySum(_, _)
AccuracySum(l, I) ==
    IF I = {} THEN 0
    ELSE LET i == CHOOSE x \in I : TRUE
         IN  (IF l[i].a.type = "number" THEN l[i].a.v ELSE 0) + AccuracySum(l, I \ {i})

HitCountAgrees(s, l) == Cardinality(HitIndices(l)) = s.totalHits.v
AtMostOneMiss(l) == Cardinality(MissIndices(l)) <= 1
DurationAgrees(s, l) ==
    \/ l = <<>>
    \/ \E i \in 1..Len(l) :
        /\ \A j \in 1..Len(l) : l[j].t.v <= l[i].t.v
        /\ l[i].t.v - s.durationMs.v \in -5000..5000
AccuracyAgrees(s, l) ==
    \/ HitIndices(l) = {}
    \/ LET n == Cardinality(HitIndices(l))
       IN  AccuracySum(l, HitIndices(l)) - n * s.avgAccuracy.v \in (-5 * n)..(5 * n)

\* the messages of the relations of stage 3 that (s, l) violates
ViolatedRelations(s, l) ==
    {m \in {"Hit count mismatch between stats and logs", "Too many misses in click logs",
            "Duration mismatch between stats and logs", "Average accuracy mismatch"} :
        \/ m = "Hit count mismatch between stats and logs" /\ ~HitCountAgrees(s, l)
        \/ m = "Too many misses in click logs" /\ ~AtMostOneMiss(l)
        \/ m = "Duration mismatch between stats and logs" /\ ~DurationAgrees(s, l)
        \/ m = "Average accuracy mismatch" /\ ~AccuracyAgrees(s, l)}

\* §6: a username is optional, at most 20 characters of the allowed set
UsernameAcceptable(u) ==
    u.kind = "undefined" \/ (u.kind = "string" /\ u.len <= 20 /\ (u.len = 0 \/ u.charsOk))

\* §4.2 stage 4: badges are optional, an array of at most 10 whitelisted ids
BadgesAcceptable(b) ==
    \/ b.kind = "undefined"
    \/ /\ b.kind = "array"
       /\ Len(b.items) <= 10
       /\ \A i \in 1..Len(b.items) : b.items[i] \in validBadges

\* a submission that is structurally valid: only stage 3 can reject it
WellFormed(body) ==
    /\ UsernameAcceptable(body.username)
    /\ SummaryAcceptable(body.stats)
    /\ body.click_logs.kind = "array"
    /\ \A i \in 1..Len(body.click_logs.items) : RecordAcceptable(body.click_logs.items[i])
    /\ BadgesAcceptable(body.badges)

\* The checks of §4.2 in the order the specification gives them (with the
\* presence, username and array checks of the endpoint where it makes them),
\* each with the validator it calls, its verdict on the body and its message
Check(call, result) == [call |-> call, ok |-> result.valid, error |-> result.error]

StageChecks(body) ==
    <<Check("", IF Missing(body.stats) \/ Missing(body.click_logs)
                THEN Invalid("Missing required fields: stats, click_logs") ELSE Valid),
      Check("validateUsername", validateUsername(body.username)),
      Check("validateGameStats", validateGameStats(body.stats)),
      Check("", IF body.click_logs.kind # "array"
                THEN Invalid("click_logs must be an array") ELSE Valid)>>
    \o [i \in 1..Len(body.click_logs.items) |->
            Check("validateClickLog", validateClickLog(body.click_logs.items[i]))]
    \o <<Check("validateGameConsistency",
               validateGameConsistency(body.stats, body.click_logs))>>
    \o (IF Missing(body.badges) THEN <<>>
        ELSE <<Check("validateBadges", validateBadges(body.badges))>>)

\* the index of the first check that fails, one past the last if none does
FirstFailure(checks) ==
    IF \A i \in 1..Len(checks) : checks[i].ok THEN Len(checks) + 1
    ELSE CHOOSE i \in 1..Len(checks) :
            ~checks[i].ok /\ \A j \in 1..(i - 1) : checks[j].ok

IsCall(c) == c.call # ""

\* the validator calls of the checks up to the k-th
CallsUpTo(checks, k) ==
    LET made == SelectSeq(SubSeq(checks, 1, Min(k, Len(checks))), IsCall)
    IN  [i \in 1..Len(made) |-> made[i].call]

\* a response carries a message as it is or behind the endpoint's prefix
Carries(error, msg) == error = msg \/ error = "Invalid click log: " \o msg

\* §7, the error taxonomy: every message it enumerates
ClickLogMessages ==
    {"Click log missing or invalid field: " \o LogFields[i] : i \in 1..Len(LogFields)}
    \cup {"Click log must be an object", "Invalid click coordinates",
          "Invalid target coordinates", "Invalid target radius", "Invalid distance",
          "Invalid timestamp in click log"}

Taxonomy ==
    {"Stats missing or invalid field: " \o StatsFields[i] : i \in 1..Len(StatsFields)}
    \cup ClickLogMessages
    \cup {"Stats must be an object", "click_logs must be an array",
          "Invalid average accuracy", "Invalid total hits count", "Invalid final radius",
          "Invalid duration", "Game completed too quickly to be human",
          "Hit count mismatch between stats and logs", "Too many misses in click logs",
          "Duration mismatch between stats and logs", "Average accuracy mismatch",
          "Badges must be an array", "Too many badges",
          "Invalid run ID", "Run not found", "Run is too old to update username"}
    \cup {"Invalid badge: " \o n : n \in {"invalid_badge", "other_badge"}}

\* messages of the endpoint that §7 does not enumerate
Unlisted ==
    {"Missing required fields: stats, click_logs", "Username must be a string",
     "Username must be 20 characters or less", "Username contains invalid characters",
     "Invalid best accuracy"}

---------------------------------------------------------------------------
(* Claims *)

\* C4: validateGameConsistency accepts a summary and a log exactly when the
\* hit records number totalHits, at most one record is a miss, the latest
\* elapsed time is within 5000 ms of durationMs and the mean accuracy of the
\* hits is within 0.05 of avgAccuracy; a rejection carries the message of a
\* relation that is violated.
C4_ConsistencyIff ==
    pc = "returned" =>
        /\ ret.valid <=> ViolatedRelations(arg.stats, arg.logs.items) = {}
        /\ ~ret.valid => ret.error \in ViolatedRelations(arg.stats, arg.logs.items)

\* C4 witness: a log whose only fault is a duration 5001 ms past its last
\* click is rejected for its duration
C4_Witness ==
    /\ pc = "returned"
    /\ ViolatedRelations(arg.stats, arg.logs.items)
            = {"Duration mismatch between stats and logs"}
    /\ arg.stats.durationMs.v = 6001
    /\ ret = Invalid("Duration mismatch between stats and logs")

\* C6: validateGameStats accepts a summary exactly when its five fields are
\* numbers in their ranges and the run took at least 100 ms per hit; a summary
\* that is otherwise acceptable and took less is rejected as too quick to be
\* human.
C6_StatsIff ==
    pc = "returned" =>
        /\ ret.valid <=> SummaryAcceptable(arg)
        /\ (SummaryTyped(arg) /\ SummaryInRange(arg) /\ ~HumanPaced(arg))
                => ret = Invalid("Game completed too quickly to be human")

\* C6 witness: ten hits in 999 ms are rejected as too quick
C6_Witness ==
    /\ pc = "returned"
    /\ arg.totalHits = Num(10) /\ arg.durationMs = Num(999)
    /\ ret = Invalid("Game completed too quickly to be human")

\* C7: validateClickLog accepts a record only if t, cx, cy, tx, ty, r and d
\* are numbers and hit is a boolean, each in its range.
C7_ClickLogTyped ==
    (pc = "returned" /\ ret.valid) => RecordAcceptable(arg)

\* C1: when a validation stage rejects a submission, the answer is status 400
\* with the error of a stage that rejects it, and the Run Store stays as it
\* was: nothing is inserted.
C1_RejectionLeavesStore ==
    [][(pc = "received" /\ pc' # "received"
            /\ \E i \in 1..Len(StageChecks(req)) : ~StageChecks(req)[i].ok)
        => /\ runs' = runs
           /\ res'.status = 400
           /\ \E i \in 1..Len(StageChecks(req)) :
                ~StageChecks(req)[i].ok /\ Carries(res'.error, StageChecks(req)[i].error)]_vars

\* C1 witness: with one run stored, a submission whose hit count disagrees
\* with its log has been rejected and the store still holds that one run
C1_Witness ==
    /\ pc = "done"
    /\ res = ErrorRes(400, "Hit count mismatch between stats and logs")
    /\ Len(runs) = 1

\* C2: two stored runs with the same click_logs have the same speed_score and
\* the same performance_score.
C2_ScoresFromLogOnly ==
    \A i, j \in 1..Len(runs) :
        runs[i].click_logs = runs[j].click_logs
            => /\ runs[i].speed_score = runs[j].speed_score
               /\ runs[i].performance_score = runs[j].performance_score

\* C3: the badges stored with a run are those the badge predicates award to
\* the run.
C3_BadgesRecomputed ==
    \A i \in 1..Len(runs) :
        runs[i].badges =
            determineBadges(calculateGameStatistics(
                runs[i].total_hits, runs[i].avg_accuracy, runs[i].best_accuracy,
                runs[i].final_radius, runs[i].duration_ms, runs[i].click_logs))

\* C5: a structurally valid submission that satisfies the four relations
\* passes validation, and one that violates exactly one of them is rejected
\* with the message of that relation.
C5_RoundTrip ==
    (pc \in {"inserted", "done"} /\ WellFormed(req)) =>
        LET V == ViolatedRelations(req.stats, req.click_logs.items)
        IN  /\ V = {} => res.status # 400
            /\ Cardinality(V) = 1 => res.status = 400 /\ res.error \in V

\* C5 witness: a well-formed submission whose only fault is an average
\* accuracy more than 0.05 off the mean of its log has been rejected for it
C5_Witness ==
    /\ pc = "done"
    /\ WellFormed(req)
    /\ ViolatedRelations(req.stats, req.click_logs.items) = {"Average accuracy mismatch"}
    /\ res = ErrorRes(400, "Average accuracy mismatch")

\* C8: in every stored run, each record's distance is the Euclidean distance
\* between its click and its target, and its hit flag says distance <= radius.
C8_RedundantFieldsVerified ==
    \A i \in 1..Len(runs) : \A k \in 1..Len(runs[i].click_logs) :
        LET l == runs[i].click_logs[k]
        IN  /\ l.d.v * l.d.v = (l.cx.v - l.tx.v) * (l.cx.v - l.tx.v)
                                + (l.cy.v - l.ty.v) * (l.cy.v - l.ty.v)
            /\ Truthy(l.hit) <=> l.d.v <= l.r.v

\* C9 as stated: the error of every rejection is, unmodified, a message of
\* the taxonomy.
C9_ErrorsInTaxonomy ==
    res.status = 400 => res.error \in Taxonomy

\* C9 as amended: the error of every rejection is a message of the taxonomy
\* other than a click-record message, or a click-record message behind the
\* prefix "Invalid click log: ", or one of the five messages the taxonomy
\* leaves out.
C9_ErrorsEnumerated ==
    res.status = 400 =>
        res.error \in (Taxonomy \ ClickLogMessages)
                        \cup {"Invalid click log: " \o m : m \in ClickLogMessages}
                        \cup Unlisted

\* C9 witness: a record with radius 0 has been rejected with the prefixed
\* message
C9_Witness ==
    /\ pc = "done"
    /\ res = ErrorRes(400, "Invalid click log: Invalid target radius")

\* C10: the validator calls the handler has made are those of the checks in
\* the order username, summary, each record in log order, cross-consistency,
\* badges, up to the first check that fails and none after it; a rejection
\* carries the error of that first failing check.
C10_StagesInOrder ==
    pc \in {"inserted", "done"} =>
        LET checks == StageChecks(req)
            k == FirstFailure(checks)
        IN  /\ calls = CallsUpTo(checks, k)
            /\ k <= Len(checks) => res.status = 400 /\ Carries(res.error, checks[k].error)
            /\ k > Len(checks) => res.status # 400

\* C10 witness: a submission that is too quick, holds a record out of range,
\* disagrees with its log and names an unknown badge has been rejected as too
\* quick after the username and summary validators only
C10_Witness ==
    /\ pc = "done"
    /\ res = ErrorRes(400, "Game completed too quickly to be human")
    /\ firstInvalidLog(req.click_logs.items) # 0
    /\ ~validateGameConsistency(req.stats, req.click_logs).valid
    /\ ~Missing(req.badges) /\ ~validateBadges(req.badges).valid
    /\ calls = <<"validateUsername", "validateGameStats">>

\* C20: calculateSpeedScore is 0 for 0 hits, exactly 100 (1000 tenths) when
\* the time per hit is at most 0.1 s, always within 0..100, and no run with
\* hits that is as slow or slower per hit scores higher.
C20_SpeedScoreShape ==
    pc = "returned" =>
        /\ arg.totalHits = 0 => ret = 0
        /\ (arg.totalHits > 0 /\ arg.totalDurationMs <= 100 * arg.totalHits)
                => ret = 10 * 100
        /\ ret >= 0 /\ ret <= 10 * 100
        /\ \A x \in SpeedInputs :
                (/\ arg.totalHits > 0 /\ x.totalHits > 0
                 /\ x.totalDurationMs * arg.totalHits >= arg.totalDurationMs * x.totalHits)
                    => calculateSpeedScore(x.totalDurationMs, x.totalHits) <= ret

\* C20 witness: 1.5 s per hit has scored 65.1, above the ceiling of 0.1 s
C20_Witness ==
    /\ pc = "returned"
    /\ arg = [totalDurationMs |-> 15000, totalHits |-> 10]
    /\ ret = 651

---------------------------------------------------------------------------
\* the human rows of a table that beat a score on a metric
Beating(table, score, metric) ==
    LET Beats(row) == ~row.is_ai /\ Field(row, metric) > score
    IN  SelectSeq(table, Beats)

\* a table without the rows of the AI benchmarks
HumansOnly(table) ==
    LET Human(row) == row.is_ai = FALSE
    IN  SelectSeq(table, Human)

\* a table without the rows that score exactly score on a metric
WithoutLevel(table, score, metric) ==
    LET Differs(row) == Field(row, metric) # score
    IN  SelectSeq(table, Differs)

\* C13: the rank getCurrentRank answers for a score on a metric is 1 plus
\* the number of human runs whose score on that metric is strictly greater;
\* the AI runs of the table never change it, and runs level with the score
\* do not push it down, so that equal scores share a rank.
C13_RankCountsBetterHumans ==
    (pc = "returned" /\ ret.of = "getCurrentRank") =>
        /\ ret.value = 1 + Len(Beating(arg.table, ScoreOf(arg), arg.metric))
        /\ ret.value = getCurrentRank(HumansOnly(arg.table), ScoreOf(arg), arg.metric)
        /\ ret.value = getCurrentRank(WithoutLevel(arg.table, ScoreOf(arg), arg.metric),
                                      ScoreOf(arg), arg.metric)

\* a human and a benchmark ahead on performance and a human level: rank 2
C13_Witness ==
    /\ pc = "returned" /\ ret.of = "getCurrentRank" /\ ret.value = 2
    /\ arg.metric = "performance" /\ arg.performanceScore = 850
    /\ Len(arg.table) = 3
    /\ arg.table[1].performance_score = 850 /\ ~arg.table[1].is_ai
    /\ arg.table[2].performance_score = 900 /\ ~arg.table[2].is_ai
    /\ arg.table[3].performance_score = 885 /\ arg.table[3].is_ai

\* Math.round with a half rounded away from zero, in tenths
RoundAway(t) == IF t >= 0 THEN (t + 5) \div 10 ELSE -((5 - t) \div 10)

\* C15: each delta of the AI comparison is my score minus the benchmark's
\* score rounded to the nearest integer, an exact half away from zero, as
\* the test expects (85 - 88.5 gives -4).
C15_DeltaRoundsHalfAway ==
    (pc = "returned" /\ ret.of = "getAIComparisons") =>
        \A k \in DOMAIN ret.value :
            \E i \in 1..Len(arg.table) :
                /\ arg.table[i].is_ai /\ arg.table[i].ai_model = k
                /\ ret.value[k].speed =
                        RoundAway(arg.speedScore - arg.table[i].speed_score)
                /\ ret.value[k].performance =
                        RoundAway(arg.performanceScore - arg.table[i].performance_score)

\* C14: first-player convention: with zero prior human runs the percentile
\* told for a score is 100 on either metric; the first human run ever
\* submitted is told percentile 100 for speed and for performance in the
\* response to its submission.
C14_FirstPlayerTold100 ==
    (pc = "done" /\ res.status = 200 /\ CountHuman(runs) = 1) =>
        /\ res.speedRanking.percentile = 100
        /\ res.performanceRanking.percentile = 100

\* C16: the Hall of Fame holds at most 10 entries, all of human runs, in
\* non-increasing performance_score, ranked 1..k in the order of the list,
\* and no human run left out of it has a strictly greater performance_score
\* than a run listed.
C16_HallOfFameTopTen ==
    pc = "returned" =>
        /\ Len(ret) <= 10
        /\ \A n \in 1..Len(ret) : ret[n].is_ai = FALSE /\ ret[n].rank = n
        /\ \A n \in 1..(Len(ret) - 1) :
                ret[n].performance_score >= ret[n + 1].performance_score
        /\ \E listed \in SUBSET (1..Len(arg)) :
                /\ Cardinality(listed) = Len(ret)
                /\ \A s \in {arg[i].performance_score : i \in 1..Len(arg)} :
                        Cardinality({i \in listed : arg[i].performance_score = s})
                            = Cardinality({n \in 1..Len(ret) : ret[n].performance_score = s})
                /\ \A i \in listed : ~arg[i].is_ai
                /\ \A i \in (1..Len(arg)) \ listed :
                        ~arg[i].is_ai =>
                            \A j \in listed :
                                arg[i].performance_score <= arg[j].performance_score

\* twelve human runs, the ninth to the eleventh level: the ninth and the
\* eleventh are listed last, the tenth is left out with the twelfth
C16_Witness ==
    /\ pc = "returned" /\ Len(arg) = 12 /\ Len(ret) = 10
    /\ \A i \in 1..12 : ~arg[i].is_ai
    /\ arg[9].performance_score = arg[10].performance_score
    /\ arg[10].performance_score = arg[11].performance_score
    /\ ret[9].speed_score = arg[11].speed_score
    /\ ret[10].speed_score = arg[9].speed_score
    /\ ret[10].rank = 10

---------------------------------------------------------------------------
\* a step in which the username handler answers a request
PatchAnswered == ppc' = "done" /\ <<ppc, preq, pres>> # <<ppc', preq', pres'>>

\* a step in which the leaderboard handler answers a request
ReadAnswered == lpc = "received" /\ lpc' = "done"

\* C11: whatever the submit, patch-username and leaderboard-read operations
\* do, no stored run is removed and no field of a stored run other than its
\* username changes; a username changes only in a successful patch-username
\* of that run, and a successful patch-username leaves every other run and
\* the number of runs as they were.
C11_OnlyUsernameOfPatchedRun ==
    [][/\ Len(runs') >= Len(runs)
       /\ \A i \in 1..Len(runs) :
            /\ [runs'[i] EXCEPT !.username = runs[i].username] = runs[i]
            /\ runs'[i].username # runs[i].username =>
                    /\ PatchAnswered /\ pres'.status = 200
                    /\ preq'.id = [numeric |-> TRUE, n |-> i]
       /\ (PatchAnswered /\ pres'.status = 200) =>
            /\ Len(runs') = Len(runs)
            /\ \A i \in 1..Len(runs) : i # preq'.id.n => runs'[i] = runs[i]
            /\ runs'[preq'.id.n].username.len = preq'.username.len]_vars

\* two runs stored, the second renamed, the first as submitted, and a
\* leaderboard read answered
C11_Witness ==
    /\ Len(runs) = 2 /\ ppc = "done" /\ pres.status = 200 /\ preq.id.n = 2
    /\ runs[2].username.len = 7 /\ runs[1].username.len = 5
    /\ lpc = "done" /\ lres.status = 200

\* C12: a patch-username request changes the store only if the run was
\* created at most 24 hours before the request; for an older run the answer
\* is 'Run is too old to update username' and for an unknown id 'Run not
\* found', the store staying as it was (the store itself answering).
C12_PatchWithinDay ==
    [][PatchAnswered =>
        LET n == preq'.id.n
            known == preq'.id.numeric /\ n >= 1 /\ n <= Len(runs)
            wellFormed == preq'.id.numeric /\ validateUsername(preq'.username).valid
        IN  /\ runs' # runs => known /\ now - runs[n].created_at <= 24 * 60 * 60 * 1000
            /\ (wellFormed /\ known /\ now - runs[n].created_at > 24 * 60 * 60 * 1000
                    /\ pres'.status # 500) =>
                    /\ pres'.error = "Run is too old to update username"
                    /\ runs' = runs
            /\ (wellFormed /\ ~known /\ pres'.status # 500) =>
                    /\ pres'.error = "Run not found"
                    /\ runs' = runs]_vars

\* a run of a day and 1 ms is refused a new name and keeps its own
C12_Witness ==
    /\ ppc = "done" /\ pres.error = "Run is too old to update username"
    /\ preq.id.n = 1 /\ Len(runs) >= 1
    /\ runs[1].created_at = 0 /\ now = 86400001
    /\ runs[1].username.len = 5

\* C17: the leaderboard cache is invalidated on new submissions: once a run
\* has been submitted with success, the next leaderboard read is not
\* answered from data cached before that submission, so that its answer
\* counts the run among the scatter points.
C17_SubmitInvalidatesCache ==
    [][(ReadAnswered /\ lres'.status = 200 /\ ~lres'.warning
            /\ pc = "done" /\ res.status = 200) =>
        lres'.data.total_entries.scatter_points >= res.id]_vars

\* C18: when the queries of a leaderboard read fail and there is a cached
\* result, the answer is a success with the cached data flagged by a
\* warning, and the cached data and its timestamp stay as they were; when
\* there is no cached result the answer is the generic internal error.
C18_StaleOnFailure ==
    [][ReadAnswered =>
        /\ lres'.warning =>
                /\ cachedData.kind # "null"
                /\ lres'.status = 200 /\ lres'.data = cachedData
                /\ cachedData' = cachedData /\ cacheTimestamp' = cacheTimestamp
        /\ lres'.status # 200 =>
                /\ cachedData.kind = "null"
                /\ lres'.status = 500 /\ lres'.error = "Internal server error"
                /\ cachedData' = cachedData /\ cacheTimestamp' = cacheTimestamp]_vars

\* the store fails after the cache has expired: the stale cache is served
C18_Witness ==
    /\ lpc = "done" /\ lres.status = 200 /\ lres.warning
    /\ lres.data = cachedData /\ now - cacheTimestamp >= 5 * 60 * 1000

\* C19: a leaderboard read issued less than 5 minutes after the read that
\* last refreshed the cache is answered with the cached response and the
\* store is not queried; a read issued 5 minutes or more after it queries
\* the store and, the queries answering, the answer replaces the cached
\* data and the timestamp becomes the time of this read.
C19_FiveMinuteCache ==
    [][ReadAnswered =>
        IF cachedData.kind # "null" /\ now - cacheTimestamp < 5 * 60 * 1000
        THEN /\ lres'.status = 200 /\ ~lres'.warning /\ lres'.data = cachedData
             /\ cachedData' = cachedData /\ cacheTimestamp' = cacheTimestamp
        ELSE (lres'.status = 200 /\ ~lres'.warning) =>
                /\ cachedData' = lres'.data /\ cacheTimestamp' = now
                /\ lres'.data.cache_timestamp = now]_vars

\* a read 299999 ms after the refresh, answered with what the refresh cached
C19_Witness ==
    /\ lpc = "done" /\ lres.status = 200 /\ ~lres.warning
    /\ cacheTimestamp = 0 /\ now = 299999
    /\ lres.data = cachedData /\ cachedData.cache_timestamp = 0

---------------------------------------------------------------------------
\* C21: calculateSpeedScore penalises very fast play: 0.2 s per hit scores
\* strictly less than 1.5 s per hit, 1.5 s per hit scores above 80, and 6 s
\* per hit scores below 30.
C21_FastPlayPenalised ==
    pc = "returned" =>
        /\ arg = [totalDurationMs |-> 2000, totalHits |-> 10]
                => ret < calculateSpeedScore(15000, 10)
        /\ arg = [totalDurationMs |-> 15000, totalHits |-> 10] => ret > 80 * 10
        /\ arg = [totalDurationMs |-> 60000, totalHits |-> 10] => ret < 30 * 10

\* C22: calculatePerformanceScore is 0 for no hits; otherwise it is
\* avgAccuracy x min(1, totalHits / 20) x 100 rounded to one decimal; it
\* never falls as totalHits grows, is the same for every totalHits of 20 or
\* more, and with fewer than 20 hits it stays under 100.
C22_PerformanceScoreShape ==
    pc = "returned" =>
        LET a == arg.averageAccuracy
            h == arg.totalHits
            capped == IF h < 20 THEN h ELSE 20
        IN  /\ h = 0 => ret = 0
            /\ h > 0 => 2 * ret - a * capped \in {-1, 0, 1}
            /\ \A x \in PerformanceInputs :
                    (x.averageAccuracy = a /\ x.totalHits >= h) =>
                        calculatePerformanceScore(a, x.totalHits) >= ret
            /\ h >= 20 => ret = calculatePerformanceScore(a, 20)
            /\ h < 20 => ret < 100 * 10

\* accuracy 0.9 with 40 hits has scored 90.0, as with 20 hits
C22_Witness ==
    /\ pc = "returned" /\ arg = [averageAccuracy |-> 90, totalHits |-> 40]
    /\ ret = 900

\* the hit records and the miss records of a log, by their indices
HitRecords(l) == {i \in 1..Len(l) : l[i].hit = [type |-> "boolean", v |-> 1]}
MissRecords(l) == {i \in 1..Len(l) : l[i].hit = [type |-> "boolean", v |-> 0]}

\* the condition of a badge, in the words of its description
BadgeCondition(id, stats) ==
    LET l == stats.clickLogs
    IN  CASE id = "sharpshooter" -> stats.avgAccuracy > 90
          [] id = "circus_shot" -> stats.bestAccuracy >= 99
          [] id = "speed_demon" -> stats.speedScore > 85 * 10
          [] id = "perfectionist" -> stats.performanceScore > 90 * 10
          [] id = "marathon_runner" -> stats.totalHits >= 25
          [] id = "consistency" ->
                /\ Cardinality(HitRecords(l)) > 5
                /\ \A i \in HitRecords(l) : l[i].a.type = "number" /\ l[i].a.v >= 80
          [] id = "bullseye_master" ->
                Cardinality({i \in HitRecords(l) : l[i].a = [type |-> "number", v |-> 100]}) >= 5
          [] id = "steady_hands" ->
                Cardinality(HitRecords(l)) >= 15 /\ MissRecords(l) = {}

AllBadges ==
    {"sharpshooter", "circus_shot", "speed_demon", "perfectionist", "marathon_runner",
     "consistency", "bullseye_master", "steady_hands"}

\* C23: determineBadges returns exactly the ids of the badges whose
\* condition holds for the record, each at most once, each decided on its
\* own.
C23_BadgesExactlyEarned ==
    pc = "returned" =>
        /\ \A id \in AllBadges :
                (\E n \in 1..Len(ret) : ret[n] = id) <=> BadgeCondition(id, arg)
        /\ \A m, n \in 1..Len(ret) : ret[m] = ret[n] => m = n
        /\ \A n \in 1..Len(ret) : ret[n] \in AllBadges

\* fifteen perfect hits and no miss under summary values short of every
\* threshold: the three badges of the log and no other
C23_Witness ==
    /\ pc = "returned" /\ Len(arg.clickLogs) = 15
    /\ arg.avgAccuracy = 90 /\ arg.totalHits = 24
    /\ ret = <<"consistency", "bullseye_master", "steady_hands">>

\* C25: A submit request appends a run exactly when it is answered with the
\* success response: an error response, also one for a failure of the
\* queries that follow the insert, leaves no run of the request in the
\* store, and no request appends more than one run.
C25_AppendIffSuccess ==
    pc = "done" => Len(runs) = (IF res.status = 200 THEN 1 ELSE 0)

\* C26: However submissions interleave, the percentile answered is a whole
\* number from 0 to 100: the count of the lower scores does not exceed the
\* count of the human players, though two queries read them.
C26_PercentileInRange ==
    \A h \in 1..MaxPosts :
        posts[h].pc = "done" /\ posts[h].status = 200 => posts[h].percentile \in 0..100

\* C27: However leaderboard reads that find the cache expired interleave,
\* the cache timestamp never decreases: what is cached is never replaced by
\* a snapshot requested earlier.
C27_CacheNeverRollsBack == [][cacheTimestamp' >= cacheTimestamp]_vars

---------------------------------------------------------------------------
(* The game client *)

IsClientHit(l) == l.hit
IsClientMiss(l) == ~l.hit
ClientHits(rs) == SelectSeq(rs.logs, IsClientHit)
ClientMisses(rs) == SelectSeq(rs.logs, IsClientMiss)

\* a run logs at most one miss, its last record, and has ended with it
MissIsLast ==
    /\ Len(ClientMisses(runState)) <= 1
    /\ \A i \in 1..Len(runState.logs) :
            ~runState.logs[i].hit => i = Len(runState.logs) /\ runState.phase = "ended"

\* a step that logs a miss ends the run; a step taken in another phase than
\* 'playing' logs nothing
MissEnds ==
    /\ (Len(ClientMisses(runState')) > Len(ClientMisses(runState))
            => runState.phase = "playing" /\ runState'.phase = "ended")
    /\ (runState.phase # "playing" => Len(runState'.logs) <= Len(runState.logs))
    /\ (runState.phase = "ended" /\ runState'.phase = "ended"
            => runState'.logs = runState.logs)

\* C24: One miss ends the run: the first click outside the target moves the
\* phase from 'playing' to 'ended', clicks are processed in 'playing' only,
\* so whatever the starts, clicks and restarts, the log of a run holds at
\* most one miss, which is its last record, and the log of an ended run
\* never grows.
C24_OneMissEndsRun == []MissIsLast /\ [][MissEnds]_vars

\* three hits and the miss that ended the run
C24_Witness ==
    /\ runState.phase = "ended"
    /\ Len(runState.logs) = 4
    /\ runState.hits = 3
    /\ ~runState.logs[4].hit

\* C28: Every run honest play produces is accepted by the server: the
\* payload submitGameData builds from an ended RunState passes the username,
\* summary, record, cross-consistency and badge validation of POST
\* /api/runs.
C28_HonestRunAccepted ==
    runState.phase = "ended" => validation(submitGameData(runState, clock)).valid

\* C29: A run terminates: every hit above the minimum radius makes the
\* radius strictly smaller, so whatever the side of the game area a run
\* records at most SHRINK_STEPS_APPROX hits and is over after at most
\* SHRINK_STEPS_APPROX + 1 processed clicks, and no run earns a badge that
\* asks for 25 hits.
C29_RunTerminates ==
    /\ [](/\ runState.hits <= SHRINK_STEPS_APPROX
          /\ Len(runState.logs) <= SHRINK_STEPS_APPROX + 1
          /\ (Len(runState.logs) >= SHRINK_STEPS_APPROX + 1
                => runState.phase = "ended")
          /\ ~criteria("marathon_runner", [totalHits |-> runState.hits]))
    /\ [][runState'.hits = runState.hits + 1 /\ runState.currentR > MIN_RADIUS_PX
            => runState'.currentR < runState.currentR]_vars

\* a run of SHRINK_STEPS_APPROX hits, ended by the last of them
C29_Witness ==
    /\ runState.phase = "ended"
    /\ runState.hits = SHRINK_STEPS_APPROX
    /\ Len(runState.logs) = SHRINK_STEPS_APPROX
    /\ runState.currentR = MIN_RADIUS_PX

HitAccuracies(rs) == [i \in 1..Len(ClientHits(rs)) |-> ClientHits(rs)[i].a.v]

\* C30: The running statistics of RunState agree with its log: hits is the
\* number of hit records, totalAccuracy the sum of their accuracies,
\* getAverageAccuracy their mean (0 without a hit), bestAccuracy their
\* greatest (0 without a hit), finalRadius the radius of the last hit
\* record (the start radius without a hit); after reset all of them are 0
\* and the log is empty.
C30_StatisticsAgreeWithLog ==
    LET hits == ClientHits(runState)
        n == Len(hits)
    IN  /\ runState.hits = n
        /\ runState.totalAccuracy = SumSeq(HitAccuracies(runState))
        /\ getAverageAccuracy(runState) =
                (IF n = 0 THEN 0 ELSE SumSeq(HitAccuracies(runState)) \div n)
        /\ runState.bestAccuracy = (IF n = 0 THEN 0 ELSE MaxSeq(HitAccuracies(runState)))
        /\ runState.finalRadius = (IF n = 0 THEN runState.startR ELSE hits[n].r)
        /\ (runState.phase = "idle" =>
                /\ runState.hits = 0 /\ runState.totalAccuracy = 0
                /\ runState.bestAccuracy = 0 /\ runState.finalRadius = 0
                /\ runState.logs = <<>>)

\* a bullseye and then a hit half way out on a target of 38 px
C30_Witness ==
    /\ runState.phase = "playing"
    /\ runState.hits = 2
    /\ runState.totalAccuracy = 150
    /\ runState.bestAccuracy = One
    /\ runState.logs[2].a.v = 50
    /\ runState.finalRadius = 38

====
